---- MODULE Spec2Model ----
(***************************************************************************)
(* Stream resolution and HLS relay of GlitchBox (src/movie_api.py).        *)
(*                                                                         *)
(* The server runs on eventlet (monkey_patch at movie_api.py:8-9): every   *)
(* request is a green thread, and control passes from one request to       *)
(* another only where the code suspends, at the subprocess wait            *)
(* (eventlet.tpool.execute) and at the outbound HTTP calls (requests.get). *)
(* An action below is the code a request runs between two suspensions.     *)
(* Green threads have no identity in the code, so the requests in service  *)
(* are a bag of their local states.                                        *)
(*                                                                         *)
(* Python strings that the code formats, splits or encodes are sequences   *)
(* of one-character strings; tags the code only compares ('direct',        *)
(* 'embed', source names) are TLA+ strings.                                *)
(***************************************************************************)
EXTENDS Integers, Sequences, FiniteSets, Bags, TLC

(***************************************************************************)
(* Bounds of the model.                                                    *)
(***************************************************************************)
\* number of requests that may be in service (one green thread each) at once
MaxCalls == 2

(***************************************************************************)
(* Python string helpers.                                                  *)
(***************************************************************************)
RECURSIVE Concat(_)
\* ''.join(parts)
Concat(parts) ==
    IF parts = <<>> THEN <<>> ELSE Head(parts) \o Concat(Tail(parts))

\* str(d) for one decimal digit
Digit(d) ==
    CASE d = 0 -> "0" [] d = 1 -> "1" [] d = 2 -> "2" [] d = 3 -> "3"
      [] d = 4 -> "4" [] d = 5 -> "5" [] d = 6 -> "6" [] d = 7 -> "7"
      [] d = 8 -> "8" [] d = 9 -> "9"

RECURSIVE Str(_)
\* str(n) for a natural number n, as f"{n}" formats it
Str(n) == IF n < 10 THEN <<Digit(n)>> ELSE Str(n \div 10) \o <<Digit(n % 10)>>

\* an optional value: <<>> is Python's None (or a missing key), <<v>> is v
None == <<>>
Some(v) == <<v>>

\* f"{x}" for an optional integer: 'None' or the decimal digits
FmtOpt(x) == IF x = None THEN <<"N", "o", "n", "e">> ELSE Str(x[1])

\* s.startswith(prefix)
StartsWith(s, prefix) ==
    /\ Len(s) >= Len(prefix)
    /\ SubSeq(s, 1, Len(prefix)) = prefix

\* the positions of character c in s
Positions(s, c) == {i \in 1..Len(s) : s[i] = c}

\* max of a non-empty set of integers
Max(S) == CHOOSE m \in S : \A x \in S : x <= m

\* s.rsplit(c, 1)[0]: s up to its last c, the whole of s when it has none
RSplitHead(s, c) ==
    IF Positions(s, c) = {} THEN s ELSE SubSeq(s, 1, Max(Positions(s, c)) - 1)

\* the characters urllib.parse.quote never encodes
AlwaysSafe ==
    {"a", "b", "c", "d", "e", "f", "g", "h", "i", "j", "k", "l", "m",
     "n", "o", "p", "q", "r", "s", "t", "u", "v", "w", "x", "y", "z",
     "A", "B", "C", "D", "E", "F", "G", "H", "I", "J", "K", "L", "M",
     "N", "O", "P", "Q", "R", "S", "T", "U", "V", "W", "X", "Y", "Z",
     "0", "1", "2", "3", "4", "5", "6", "7", "8", "9", "_", ".", "-", "~"}

\* '%XX' for the ASCII characters that occur in URLs and manifests
PctEncode(c) ==
    CASE c = "/" -> <<"%", "2", "F">>
      [] c = ":" -> <<"%", "3", "A">>
      [] c = "?" -> <<"%", "3", "F">>
      [] c = "=" -> <<"%", "3", "D">>
      [] c = "&" -> <<"%", "2", "6">>
      [] c = "#" -> <<"%", "2", "3">>
      [] c = "%" -> <<"%", "2", "5">>
      [] c = "," -> <<"%", "2", "C">>
      [] c = "@" -> <<"%", "4", "0">>
      [] c = "(" -> <<"%", "2", "8">>
      [] c = ")" -> <<"%", "2", "9">>
      [] c = " " -> <<"%", "2", "0">>
      [] c = "\t" -> <<"%", "0", "9">>
      [] c = "\r" -> <<"%", "0", "D">>
      [] c = "\n" -> <<"%", "0", "A">>

RECURSIVE quote(_, _)
\* urllib.parse.quote(s, safe=safe)
quote(s, safe) ==
    IF s = <<>> THEN <<>>
    ELSE (IF Head(s) \in AlwaysSafe \cup safe THEN <<Head(s)>> ELSE PctEncode(Head(s)))
         \o quote(Tail(s), safe)

\* the characters str.strip() removes
Whitespace == {" ", "\t", "\n", "\r"}

RECURSIVE LStrip(_, _)
\* s.lstrip(chars)
LStrip(s, chars) ==
    IF s # <<>> /\ Head(s) \in chars THEN LStrip(Tail(s), chars) ELSE s

RECURSIVE RStrip(_, _)
\* s.rstrip(chars)
RStrip(s, chars) ==
    IF s # <<>> /\ s[Len(s)] \in chars THEN RStrip(SubSeq(s, 1, Len(s) - 1), chars) ELSE s

\* s.strip()
Strip(s) == RStrip(LStrip(s, Whitespace), Whitespace)

\* min of a non-empty set of integers
Min(S) == CHOOSE m \in S : \A x \in S : m <= x

RECURSIVE Split(_, _)
\* s.split(c) for a one-character separator c
Split(s, c) ==
    IF Positions(s, c) = {} THEN <<s>>
    ELSE <<SubSeq(s, 1, Min(Positions(s, c)) - 1)>>
         \o Split(SubSeq(s, Min(Positions(s, c)) + 1, Len(s)), c)

RECURSIVE Join(_, _)
\* c.join(parts)
Join(parts, c) ==
    IF Len(parts) = 0 THEN <<>>
    ELSE IF Len(parts) = 1 THEN parts[1]
    ELSE parts[1] \o <<c>> \o Join(Tail(parts), c)

\* sub in s
Contains(s, sub) ==
    \E i \in 1..(Len(s) - Len(sub) + 1) : SubSeq(s, i, i + Len(sub) - 1) = sub

(***************************************************************************)
(* Requests, and what the collaborators may answer.                        *)
(***************************************************************************)
\* content_type as generate_stream_url and generate_tv_stream_url pass it
MOVIE == <<"m", "o", "v", "i", "e">>
TV == <<"t", "v">>

\* the arguments of extract_vidsrc_stream: a movie (season and episode keep
\* their default None) and an episode of a series
Requests ==
    {[tmdb_id |-> 7, content_type |-> MOVIE, season |-> None, episode |-> None],
     [tmdb_id |-> 7, content_type |-> TV, season |-> Some(1), episode |-> Some(2)]}

\* manifest URLs a tier may find: a plain one, and one whose query holds '/' and '&'
UrlPlain == <<"h", "t", "t", "p", "s", ":", "/", "/", "x", ".", "i", "o", "/", "a", "/", "m", ".", "m", "3", "u", "8">>
UrlQuery == <<"h", "t", "t", "p", "s", ":", "/", "/", "x", ".", "i", "o", "/", "m", ".", "m", "3", "u", "8", "?", "t", "=", "a", "/", "b", "&", "k", "=", "c">>
\* a referer a tier may report
RefX == <<"h", "t", "t", "p", "s", ":", "/", "/", "x", ".", "i", "o", "/">>
\* a captured manifest body: a tag line, a relative URI line, a final newline
BodyM == <<"#", "E", "X", "T", "M", "3", "U", "\n", "v", "/", "l", "o", "w", ".", "m", "3", "u", "8", "\n">>

\* the outcome of eventlet.tpool.execute(subprocess.run, ...): the exception it
\* raised if any, the exit code, and stdout as json.loads sees it (parses is
\* FALSE when json.loads raises JSONDecodeError, data is the decoded object;
\* a key the object lacks is None)
NoData == [success |-> FALSE, hls_url |-> None, hls_content |-> None,
           referer |-> None, subtitles |-> None]
WorkerRun(raised, returncode, parses, data) ==
    [raised |-> raised, returncode |-> returncode, parses |-> parses, data |-> data]
WorkerResults ==
    {WorkerRun("TimeoutExpired", 0, FALSE, NoData),
     WorkerRun("OSError", 0, FALSE, NoData),
     WorkerRun("none", 1, TRUE, NoData),
     WorkerRun("none", 1, TRUE,
               [success |-> TRUE, hls_url |-> Some(UrlPlain), hls_content |-> Some(BodyM),
                referer |-> Some(RefX), subtitles |-> None]),
     WorkerRun("none", 0, FALSE, NoData),
     WorkerRun("none", 0, TRUE, NoData),
     WorkerRun("none", 0, TRUE, [NoData EXCEPT !.success = TRUE]),
     WorkerRun("none", 0, TRUE, [NoData EXCEPT !.hls_url = Some(UrlPlain)]),
     WorkerRun("none", 0, TRUE,
               [success |-> TRUE, hls_url |-> Some(UrlPlain), hls_content |-> Some(BodyM),
                referer |-> Some(RefX), subtitles |-> Some(<<"en">>)]),
     WorkerRun("none", 0, TRUE,
               [success |-> TRUE, hls_url |-> Some(UrlQuery), hls_content |-> None,
                referer |-> None, subtitles |-> None]),
     WorkerRun("none", 0, TRUE,
               [success |-> TRUE, hls_url |-> Some(UrlQuery), hls_content |-> Some(<<>>),
                referer |-> None, subtitles |-> None])}

\* bool(x) for an optional string: None and '' are falsy
Truthy(x) == x # None /\ x[1] # <<>>

\* d.get(key, default) for a key whose value is the optional x
GetOr(x, default) == IF x = None THEN default ELSE x[1]

(***************************************************************************)
(* The state.                                                              *)
(***************************************************************************)
VARIABLES
    bingeflix_cache,       \* {cache_key: {data, timestamp}}: a function on the keys it holds
    bingeflix_m3u8_cache,  \* {stream_id: {content, referer, base_url, timestamp}}
    bingeflix_lock,        \* the counter of the semaphore
    now,                   \* what time.time() returns
    calls,                 \* the requests in service: a bag of local states (see Call)
    running_workers,       \* the worker processes subprocess.run started that are alive
    scraper,               \* a process of bingeflix_scraper.py: where it is, what its
                           \* listeners collected and what it wrote to stdout and stderr
    watchparty_rooms,      \* {room_code: {host, users, content, state, ...}}
    user_rooms,            \* {sid: room_code}
    sessions,              \* the Socket.IO connection of each sid: not yet made, open, closed
    sio_rooms,             \* the Socket.IO rooms each sid was put in by join_room
    emitted,               \* what the last event handler emitted, in order
    users_collection,      \* the users documents: {_id: {username, friends}}
    friend_requests_collection,  \* the friend request documents, _id being the index
    returned               \* the call that returned in the last step, with its arguments,
                           \* its tiers and its result; NoReturn once it is delivered

\* the state of the co-viewing rooms, and of the friendships
party == <<watchparty_rooms, user_rooms, sessions, sio_rooms, emitted>>
friendships == <<users_collection, friend_requests_collection>>

vars == <<bingeflix_cache, bingeflix_m3u8_cache, bingeflix_lock, now, calls,
          running_workers, scraper, party, friendships, returned>>

\* BINGEFLIX_CACHE_TTL, in the unit of the clock
BINGEFLIX_CACHE_TTL == 15 * 60

\* the instants the clock is observed at: two early ones, one exactly a TTL
\* after the start and one just past it
ClockValues == {0, 2, BINGEFLIX_CACHE_TTL, BINGEFLIX_CACHE_TTL + 1}

\* the empty dict
EmptyDict == [k \in {} |-> {}]

\* d[k] = v that, when d has an entry for k, only puts the timestamp of v in it
DictSetStampOnly(d, k, v) ==
    [x \in DOMAIN d \cup {k} |->
        IF x = k
        THEN IF k \in DOMAIN d THEN [d[k] EXCEPT !.timestamp = v.timestamp] ELSE v
        ELSE d[x]]

\* d[k] = v
DictSet(d, k, v) == [x \in DOMAIN d \cup {k} |-> IF x = k THEN v ELSE d[x]]

\* the local state of a resolution in service: at is the call it is suspended
\* at, request its arguments, tiers the tiers it invoked with their outcomes
Call(at, request, log) == [at |-> at, request |-> request, tiers |-> log]

NoReturn == [call |-> "none"]

\* no process of bingeflix_scraper.py was started
NotStarted == [pc |-> "none"]

\* the Socket.IO session ids of the clients
Sids == {"s1", "s2", "s3"}

\* the _id of the users documents, and the username of each
UserIds == {"a", "b"}
UsernameOf(u) == <<u>>

Init ==
    /\ bingeflix_cache = EmptyDict
    /\ bingeflix_m3u8_cache = EmptyDict
    /\ bingeflix_lock = 1
    /\ now = 0
    /\ calls = EmptyBag
    /\ running_workers = 0
    /\ scraper = NotStarted
    /\ watchparty_rooms = EmptyDict
    /\ user_rooms = EmptyDict
    /\ sessions = [sid \in Sids |-> "none"]
    /\ sio_rooms = [sid \in Sids |-> {}]
    /\ emitted = <<>>
    /\ users_collection = [u \in UserIds |-> [username |-> UsernameOf(u), friends |-> {}]]
    /\ friend_requests_collection = <<>>
    /\ returned = NoReturn

(***************************************************************************)
(* Tier 1: extract_bingeflix_stream.                                       *)
(***************************************************************************)
\* the key built without the separators between the fields
cache_key_unseparated(r) ==
    Concat(<<Str(r.tmdb_id), r.content_type, FmtOpt(r.season), FmtOpt(r.episode)>>)

\* cache_key = f"{tmdb_id}_{content_type}_{season}_{episode}"
cache_key(r) ==
    Concat(<<Str(r.tmdb_id), <<"_">>, r.content_type, <<"_">>, FmtOpt(r.season),
             <<"_">>, FmtOpt(r.episode)>>)

\* CacheHit with the comparison turned round: only expired entries hit
CacheHitInverted(k, t) ==
    /\ k \in DOMAIN bingeflix_cache
    /\ t - bingeflix_cache[k].timestamp > BINGEFLIX_CACHE_TTL

\* a hit only while the Manifest Cache holds a fresh entry of the key as well
CacheHitNeedsManifest(k, t) ==
    /\ k \in DOMAIN bingeflix_cache
    /\ t - bingeflix_cache[k].timestamp < BINGEFLIX_CACHE_TTL
    /\ k \in DOMAIN bingeflix_m3u8_cache
    /\ t - bingeflix_m3u8_cache[k].timestamp <= BINGEFLIX_CACHE_TTL

\* a hit only while the semaphore is free
CacheHitWhenGateFree(k, t) ==
    /\ bingeflix_lock > 0
    /\ k \in DOMAIN bingeflix_cache
    /\ t - bingeflix_cache[k].timestamp < BINGEFLIX_CACHE_TTL

\* cached and (time.time() - cached['timestamp']) < BINGEFLIX_CACHE_TTL
CacheHit(k, t) ==
    /\ k \in DOMAIN bingeflix_cache
    /\ t - bingeflix_cache[k].timestamp < BINGEFLIX_CACHE_TTL

\* an acquire that takes the semaphore whether or not it is free
TryAcquireAlways == TRUE

\* bingeflix_lock.acquire(blocking=False) succeeds
TryAcquire == bingeflix_lock > 0

\* WorkerOk without the test of the exit code (lines 1491-1493)
WorkerOkAnyExit(result) ==
    /\ result.raised = "none"
    /\ result.parses
    /\ result.data.success
    /\ Truthy(result.data.hls_url)

\* the worker's run is accepted: no exception, exit code 0, stdout parses,
\* data.get('success') and data.get('hls_url') are truthy
WorkerOk(result) ==
    /\ result.raised = "none"
    /\ result.returncode = 0
    /\ result.parses
    /\ result.data.success
    /\ Truthy(result.data.hls_url)

DefaultBingeflixReferer == <<"h", "t", "t", "p", "s", ":", "/", "/", "b", "i", "n", "g", "e", "f", "l", "i", "x", ".", "t", "v", "/">>
HlsBingeflixRoute == <<"/", "a", "p", "i", "/", "h", "l", "s", "/", "b", "i", "n", "g", "e", "f", "l", "i", "x", "/">>
HlsProxyRoute == <<"/", "a", "p", "i", "/", "h", "l", "s", "/", "p", "r", "o", "x", "y", "?", "u", "r", "l", "=">>
RefererParam == <<"&", "r", "e", "f", "e", "r", "e", "r", "=">>

\* base_url = hls_url.rsplit('/', 1)[0] + '/'
BaseUrl(hls_url) == RSplitHead(hls_url, "/") \o <<"/">>

\* f"/api/hls/bingeflix/{quote(stream_id, safe='')}"
CachedManifestUrl(stream_id) == HlsBingeflixRoute \o quote(stream_id, {})

\* f"/api/hls/proxy?url={quote(url, safe='')}&referer={quote(referer, safe='')}"
PassThroughUrl(url, referer) ==
    Concat(<<HlsProxyRoute, quote(url, {}), RefererParam, quote(referer, {})>>)

\* the ManifestCacheEntry of lines 1521-1526, with the clock read t
ManifestEntry(data, t) ==
    [content |-> data.hls_content[1],
     referer |-> GetOr(data.referer, DefaultBingeflixReferer),
     base_url |-> BaseUrl(data.hls_url[1]),
     timestamp |-> t]

\* proxied_url with the pass-through parameters put in the URL as they are
BingeflixProxiedUrlUnquoted(r, data) ==
    IF Truthy(data.hls_content)
    THEN CachedManifestUrl(cache_key(r))
    ELSE Concat(<<HlsProxyRoute, data.hls_url[1], RefererParam,
                  GetOr(data.referer, DefaultBingeflixReferer)>>)

\* proxied_url of lines 1517-1531
BingeflixProxiedUrl(r, data) ==
    IF Truthy(data.hls_content)
    THEN CachedManifestUrl(cache_key(r))
    ELSE PassThroughUrl(data.hls_url[1], GetOr(data.referer, DefaultBingeflixReferer))

\* stream_data of lines 1533-1540
BingeflixStreamData(r, data) ==
    [type |-> "direct",
     url |-> BingeflixProxiedUrl(r, data),
     source |-> "bingeflix",
     subtitles |-> GetOr(data.subtitles, <<>>),
     original_url |-> data.hls_url[1],
     referer |-> GetOr(data.referer, DefaultBingeflixReferer)]

\* the entry of lines 1543-1546 with the worker's manifest URL left in place
\* of the proxied one
ResultEntryUnproxied(r, data, t) ==
    [data |-> [BingeflixStreamData(r, data) EXCEPT !.url = data.hls_url[1]], timestamp |-> t]

\* the Result Cache entry of lines 1543-1546
ResultEntry(r, data, t) == [data |-> BingeflixStreamData(r, data), timestamp |-> t]

\* one entry of a call's tiers: tier 1 is the local worker, 2 the remote
\* service, 3 the HTML fallback; outcome is "running" while the tier is
\* suspended, "busy" when tier 1 found the semaphore taken, then "fail" or "ok"
Tier(n, outcome) == [tier |-> n, outcome |-> outcome]

\* the tier that is running ends with the given outcome
EndTier(log, outcome) == [log EXCEPT ![Len(log)].outcome = outcome]

\* what tmdb.get_movie_details / get_tv_details returns: a dict with the key
\* 'error' when the lookup failed (lines 241-242, 260-261), else the details,
\* whose release_date (first_air_date) is absent, a text, or a value of the
\* catalog's JSON that is no text
Movie(error, title, date, date_is_text) ==
    [error |-> error, title |-> title, date |-> date, date_is_text |-> date_is_text]
TitleX == <<"T">>
DateX == <<"2", "0", "2", "0", "-", "0", "5", "-", "1", "7">>
CatalogError == Movie(TRUE, None, None, TRUE)
CatalogMovies ==
    {CatalogError,
     Movie(FALSE, Some(TitleX), Some(DateX), TRUE),
     Movie(FALSE, Some(TitleX), Some(<<"2", "0", "2", "0">>), FALSE)}

\* the fallback URLs of lines 1737-1738 and 1785-1786
VidkingEmbed == <<"h", "t", "t", "p", "s", ":", "/", "/", "w", "w", "w", ".", "v", "i", "d", "k", "i", "n", "g", ".", "n", "e", "t", "/", "e", "m", "b", "e", "d", "/">>
StreamVidsrcEmbed == <<"h", "t", "t", "p", "s", ":", "/", "/", "v", "i", "d", "s", "r", "c", ".", "t", "o", "/", "e", "m", "b", "e", "d", "/">>
FallbackUrl(site, r) ==
    IF r.content_type = MOVIE
    THEN Concat(<<site, MOVIE, <<"/">>, Str(r.tmdb_id)>>)
    ELSE Concat(<<site, TV, <<"/">>, Str(r.tmdb_id), <<"/">>, FmtOpt(r.season),
                  <<"/">>, FmtOpt(r.episode)>>)

\* a response of the stream endpoints: jsonify(payload), status
JsonResponse(status, payload) == [status |-> status, json |-> payload]

\* stream_info.get(key, default)
DictGet(d, key, default) == IF key \in DOMAIN d THEN d[key] ELSE default

\* movie.get('release_date', '')[:4] if movie.get('release_date') else None
Year(movie) == IF Truthy(movie.date) THEN Some(SubSeq(movie.date[1], 1, Min({4, Len(movie.date[1])}))) ELSE None

\* the entries of lines 1755-1765 and 1802-1814 that both endpoints give
StreamFields(r, movie, stream_info) ==
    [title |-> movie.title, year |-> Year(movie),
     stream_url |-> DictGet(stream_info, "url", FallbackUrl(StreamVidsrcEmbed, r)),
     stream_type |-> DictGet(stream_info, "type", "embed"),
     subtitles |-> DictGet(stream_info, "subtitles", <<>>),
     vidking_url |-> FallbackUrl(VidkingEmbed, r),
     vidsrc_url |-> FallbackUrl(StreamVidsrcEmbed, r)]

\* the dict of lines 1755-1765 for a movie and of lines 1802-1814 for an
\* episode
StreamPayload(r, movie, stream_info) ==
    IF r.content_type = MOVIE
    THEN StreamFields(r, movie, stream_info) @@
             [movie_id |-> r.tmdb_id, movie_details |-> movie]
    ELSE StreamFields(r, movie, stream_info) @@
             [tv_id |-> r.tmdb_id, season |-> r.season[1], episode |-> r.episode[1],
              show_details |-> movie]

\* str(e) of the except clauses of lines 1767-1769 and 1816-1817
StreamErrorMessage == <<"s", "t", "r", "(", "e", ")">>

\* a handler in which a failed catalog lookup answers as a found title does
CatalogFailedAlwaysFound(movie) == FALSE

\* 'error' in movie, lines 1733 and 1781
CatalogFailed(movie) == movie.error

\* what generate_stream_url / generate_tv_stream_url answers for the request r
\* (lines 1730-1769, 1777-1817) with the catalog's answer movie, once
\* extract_vidsrc_stream has returned stream_info: slicing a release_date that
\* is no text raises, which the except clause answers with 500
StreamResponse(r, movie, stream_info) ==
    IF Truthy(movie.date) /\ ~movie.date_is_text
    THEN JsonResponse(500, [error |-> StreamErrorMessage])
    ELSE JsonResponse(200, StreamPayload(r, movie, stream_info))

\* extract_vidsrc_stream returns result to its caller, the stream endpoint,
\* which answers with response for the title the catalog found
Resolved(r, log, result) ==
    \E movie \in {m \in CatalogMovies : ~CatalogFailed(m)} :
        returned' = [call |-> "extract_vidsrc_stream", request |-> r, tiers |-> log,
                     result |-> result, movie |-> movie,
                     response |-> StreamResponse(r, movie, result)]

\* lines 1730-1734 and 1777-1782: the catalog lookup of a request for r failed
CatalogRejects(r, movie, limit) ==
    /\ returned = NoReturn
    /\ BagCardinality(calls) < limit
    /\ CatalogFailed(movie)
    /\ returned' = [call |-> "generate_stream_url", request |-> r, movie |-> movie,
                    response |-> JsonResponse(404, movie)]
    /\ UNCHANGED <<bingeflix_cache, bingeflix_m3u8_cache, bingeflix_lock, now, calls,
                 running_workers, scraper, party, friendships>>

\* the call c goes on as d
Becomes(c, d) == calls' = (calls (-) SetToBag({c})) (+) SetToBag({d})

\* the call c ends
Ends(c) == calls' = calls (-) SetToBag({c})

\* a release on the path that returns normally only, none when the call raises
FinallyReleasesUnlessRaised(result) == IF result.raised = "none" THEN 1 ELSE 0

\* a release in the except clauses as well as in the finally clause
FinallyReleasesTwiceOnError(result) == IF result.raised = "none" THEN 1 ELSE 2

\* a release on the paths that return, none when subprocess.run times out
FinallyReleasesUnlessTimeout(result) == IF result.raised = "TimeoutExpired" THEN 0 ELSE 1

\* the finally clause of lines 1556-1557: how many times the exit path of the
\* guarded region calls bingeflix_lock.release()
FinallyReleases(result) == 1

\* a call that leaves the worker alive when it times out
ReapedUnlessTimeout(result) == IF result.raised = "TimeoutExpired" THEN 0 ELSE 1

\* subprocess.run(cmd, ..., timeout=90) of lines 1477-1484 returns or raises
\* once its child has terminated: the child has exited, or at the expiry of
\* the timeout it was killed and waited for before TimeoutExpired is raised.
\* The number of worker processes that are gone when the call ends
Reaped(result) == 1

\* a new request for r, when fewer than limit are in service: lines 1455-1484,
\* up to the suspension in tpool.execute, and on to the requests.get of
\* call_vidsrc_scraper when extract_bingeflix_stream returns None at once
ResolveStart(r, limit) ==
    /\ returned = NoReturn
    /\ BagCardinality(calls) < limit
    /\ IF CacheHit(cache_key(r), now)
       THEN /\ Resolved(r, <<>>, bingeflix_cache[cache_key(r)].data)
            /\ UNCHANGED <<bingeflix_lock, calls, running_workers, scraper, party, friendships>>
       ELSE IF TryAcquire
       THEN /\ bingeflix_lock' = bingeflix_lock - 1
            /\ running_workers' = running_workers + 1
            /\ UNCHANGED <<scraper, party, friendships>>
            /\ calls' = calls (+) SetToBag({Call("tpool", r, <<Tier(1, "running")>>)})
            /\ returned' = NoReturn
       ELSE /\ calls' = calls (+) SetToBag({Call("scraper_get", r,
                                                 <<Tier(1, "busy"), Tier(2, "running")>>)})
            /\ returned' = NoReturn
            /\ UNCHANGED <<bingeflix_lock, running_workers, scraper, party, friendships>>
    /\ UNCHANGED <<bingeflix_cache, bingeflix_m3u8_cache, now>>

\* a failure path that stores a negative entry for the key
FailureLeavesNegativeEntry(cache, r, t) ==
    DictSet(cache, cache_key(r),
            [data |-> [type |-> "none", url |-> <<>>, source |-> "bingeflix",
                       subtitles |-> <<>>, original_url |-> <<>>, referer |-> <<>>],
             timestamp |-> t])

\* a failure path that deletes the entry of the key, if there is one
FailureEvicts(cache, r, t) == [k \in DOMAIN cache \ {cache_key(r)} |-> cache[k]]

\* what the paths of lines 1491-1505 and 1550-1555 that return None leave in
\* the Result Cache: they write nothing
FailureLeaves(cache, r, t) == cache

\* lines 1486-1557 once subprocess.run has returned or raised: t2 is the second
\* clock read (line 1545), the first (line 1525) being now
WorkerReturn(c, result, t2) ==
    /\ returned = NoReturn
    /\ c.at = "tpool"
    /\ t2 >= now
    /\ LET r == c.request
           data == result.data
       IN  IF WorkerOk(result)
           THEN /\ bingeflix_m3u8_cache' =
                       IF Truthy(data.hls_content)
                       THEN DictSet(bingeflix_m3u8_cache, cache_key(r), ManifestEntry(data, now))
                       ELSE bingeflix_m3u8_cache
                /\ bingeflix_cache' =
                       DictSet(bingeflix_cache, cache_key(r), ResultEntry(r, data, t2))
                /\ now' = t2
                /\ Resolved(r, EndTier(c.tiers, "ok"), BingeflixStreamData(r, data))
                /\ Ends(c)
           ELSE /\ t2 = now
                /\ Becomes(c, Call("scraper_get", r,
                                   Append(EndTier(c.tiers, "fail"), Tier(2, "running"))))
                /\ returned' = NoReturn
                /\ bingeflix_cache' = FailureLeaves(bingeflix_cache, r, now)
                /\ UNCHANGED <<bingeflix_m3u8_cache, now>>
    /\ bingeflix_lock' = bingeflix_lock + FinallyReleases(result)
    /\ running_workers' = running_workers - Reaped(result)
    /\ UNCHANGED <<scraper, party, friendships>>

(***************************************************************************)
(* Tier 2: call_vidsrc_scraper.                                            *)
(***************************************************************************)
\* one domain of the service's results map; a key the object lacks is None
DomainInfo(domain, hls_url, referer, subtitles) ==
    [domain |-> domain, hls_url |-> hls_url, referer |-> referer, subtitles |-> subtitles]

\* the outcome of requests.get(.../extract), raise_for_status and resp.json():
\* the exception raised if any, and the decoded object, whose results map is
\* the sequence of its items in iteration order
ScraperCall(raised, success, results) ==
    [raised |-> raised, success |-> success, results |-> results]
ScraperResponses ==
    {ScraperCall("ConnectionError", FALSE, <<>>),
     ScraperCall("Timeout", FALSE, <<>>),
     ScraperCall("HTTPError", FALSE, <<>>),
     ScraperCall("none", FALSE, <<DomainInfo("vidnest.fun", Some(UrlPlain), None, None)>>),
     ScraperCall("none", TRUE, <<>>),
     ScraperCall("none", TRUE, <<DomainInfo("vidnest.fun", None, Some(RefX), None),
                                 DomainInfo("vidsrc.cc", Some(<<>>), None, None)>>),
     ScraperCall("none", TRUE, <<DomainInfo("vidnest.fun", Some(<<>>), None, None),
                                 DomainInfo("vidsrc.cc", Some(UrlQuery), Some(RefX), Some(<<"en">>)),
                                 DomainInfo("vidlink.pro", Some(UrlPlain), None, None)>>)}

DefaultVidnestReferer == <<"h", "t", "t", "p", "s", ":", "/", "/", "v", "i", "d", "n", "e", "s", "t", ".", "f", "u", "n", "/">>

\* the positions of the domains whose hls_url is truthy
UsableDomains(results) == {i \in 1..Len(results) : Truthy(results[i].hls_url)}

\* the dict of lines 1593-1600 for the domain info
ScraperStreamData(info) ==
    [type |-> "direct",
     url |-> PassThroughUrl(info.hls_url[1], GetOr(info.referer, DefaultVidnestReferer)),
     source |-> info.domain,
     subtitles |-> GetOr(info.subtitles, <<>>),
     original_url |-> info.hls_url[1],
     referer |-> GetOr(info.referer, DefaultVidnestReferer)]

\* call_vidsrc_scraper taking the last domain with a truthy hls_url
call_vidsrc_scraper_last(resp) ==
    IF \/ resp.raised # "none"
       \/ ~resp.success
       \/ resp.results = <<>>
       \/ UsableDomains(resp.results) = {}
    THEN None
    ELSE Some(ScraperStreamData(resp.results[Max(UsableDomains(resp.results))]))

\* what call_vidsrc_scraper returns for the service's answer: None, or the
\* dict built from the first domain with a truthy hls_url
call_vidsrc_scraper(resp) ==
    IF \/ resp.raised # "none"
       \/ ~resp.success
       \/ resp.results = <<>>
       \/ UsableDomains(resp.results) = {}
    THEN None
    ELSE Some(ScraperStreamData(resp.results[Min(UsableDomains(resp.results))]))

(***************************************************************************)
(* Tier 3 and the embed fallback: the rest of extract_vidsrc_stream.       *)
(***************************************************************************)
VidsrcEmbed == <<"h", "t", "t", "p", "s", ":", "/", "/", "v", "i", "d", "s", "r", "c", ".", "t", "o", "/", "e", "m", "b", "e", "d", "/">>
\* vidsrc_url of lines 1636-1639, and fallback_url of lines 1716-1719
vidsrc_url(r) ==
    IF r.content_type = MOVIE
    THEN Concat(<<VidsrcEmbed, MOVIE, <<"/">>, Str(r.tmdb_id)>>)
    ELSE Concat(<<VidsrcEmbed, TV, <<"/">>, Str(r.tmdb_id), <<"/">>, FmtOpt(r.season),
                  <<"/">>, FmtOpt(r.episode)>>)

\* the dict of lines 1707-1711: no manifest URL was found
EmbedResult(r) == [type |-> "embed", url |-> vidsrc_url(r), source |-> "vidsrc.to"]

\* ExceptFallback with the exception raised again instead of swallowed
ExceptReraise(r) == [type |-> "exception", url |-> <<>>, source |-> "vidsrc.to"]

\* the except clause of lines 1713-1725: what extract_vidsrc_stream returns
\* when tier 3 raises
ExceptFallback(r) == [type |-> "embed", url |-> vidsrc_url(r), source |-> "vidsrc.to"]

\* the dict of lines 1683-1687 and 1696-1700
DirectResult(m3u8_url) == [type |-> "direct", url |-> m3u8_url, source |-> "vidsrc.to"]

\* the outcome of fetching and parsing the embed page: raised when the import
\* of bs4, requests.get or raise_for_status raises; iframe_src is the src of
\* the player iframe, None when the page has none
IframePath == <<"/", "e", "/", "1">>
IframeAbs == <<"h", "t", "t", "p", "s", ":", "/", "/", "p", ".", "i", "o", "/", "e", "/", "1">>
EmbedResponses ==
    {[raised |-> TRUE, iframe_src |-> None],
     [raised |-> FALSE, iframe_src |-> None],
     [raised |-> FALSE, iframe_src |-> Some(<<>>)],
     [raised |-> FALSE, iframe_src |-> Some(IframePath)],
     [raised |-> FALSE, iframe_src |-> Some(IframeAbs)]}

\* the outcome of fetching and parsing the iframe page: raised when
\* requests.get raises; script_m3u8 is the first match of the manifest pattern
\* in the first script that has one, source_src the src of the first source
\* tag of lines 1690-1691
IframeResponses ==
    {[raised |-> TRUE, script_m3u8 |-> None, source_src |-> None],
     [raised |-> FALSE, script_m3u8 |-> None, source_src |-> None],
     [raised |-> FALSE, script_m3u8 |-> Some(UrlPlain), source_src |-> Some(UrlQuery)],
     [raised |-> FALSE, script_m3u8 |-> None, source_src |-> Some(UrlQuery)],
     [raised |-> FALSE, script_m3u8 |-> None, source_src |-> Some(<<>>)]}

\* ScraperReturn without the early return of lines 1628-1629: tier 3 runs
\* although tier 2 gave a result
ScraperReturnFallsThrough(c, resp) ==
    /\ returned = NoReturn
    /\ c.at = "scraper_get"
    /\ Becomes(c, Call("embed_get", c.request,
                       Append(EndTier(c.tiers, IF call_vidsrc_scraper(resp) # None
                                               THEN "ok" ELSE "fail"),
                              Tier(3, "running"))))
    /\ returned' = NoReturn
    /\ UNCHANGED <<bingeflix_cache, bingeflix_m3u8_cache, bingeflix_lock, now,
                 running_workers, scraper, party, friendships>>

\* lines 1574-1613 once requests.get has returned or raised, and on to the
\* requests.get of line 1651 when the service gave nothing
ScraperReturn(c, resp) ==
    /\ returned = NoReturn
    /\ c.at = "scraper_get"
    /\ IF call_vidsrc_scraper(resp) # None
       THEN /\ Resolved(c.request, EndTier(c.tiers, "ok"), call_vidsrc_scraper(resp)[1])
            /\ Ends(c)
       ELSE /\ Becomes(c, Call("embed_get", c.request,
                               Append(EndTier(c.tiers, "fail"), Tier(3, "running"))))
            /\ returned' = NoReturn
    /\ UNCHANGED <<bingeflix_cache, bingeflix_m3u8_cache, bingeflix_lock, now,
                 running_workers, scraper, party, friendships>>

\* lines 1652-1671 once the embed page has been fetched, up to the
\* requests.get of the iframe source, or to the embed fallback
EmbedReturn(c, resp) ==
    /\ returned = NoReturn
    /\ c.at = "embed_get"
    /\ IF resp.raised
       THEN /\ Resolved(c.request, EndTier(c.tiers, "fail"), ExceptFallback(c.request))
            /\ Ends(c)
       ELSE IF Truthy(resp.iframe_src)
       THEN /\ Becomes(c, Call("iframe_get", c.request, c.tiers))
            /\ returned' = NoReturn
       ELSE /\ Resolved(c.request, EndTier(c.tiers, "fail"), EmbedResult(c.request))
            /\ Ends(c)
    /\ UNCHANGED <<bingeflix_cache, bingeflix_m3u8_cache, bingeflix_lock, now,
                 running_workers, scraper, party, friendships>>

\* lines 1672-1711 once the iframe page has been fetched
IframeReturn(c, resp) ==
    /\ returned = NoReturn
    /\ c.at = "iframe_get"
    /\ IF ~resp.raised /\ resp.script_m3u8 # None
       THEN Resolved(c.request, EndTier(c.tiers, "ok"), DirectResult(resp.script_m3u8[1]))
       ELSE IF ~resp.raised /\ Truthy(resp.source_src)
       THEN Resolved(c.request, EndTier(c.tiers, "ok"), DirectResult(resp.source_src[1]))
       ELSE Resolved(c.request, EndTier(c.tiers, "fail"), EmbedResult(c.request))
    /\ Ends(c)
    /\ UNCHANGED <<bingeflix_cache, bingeflix_m3u8_cache, bingeflix_lock, now,
                 running_workers, scraper, party, friendships>>

(***************************************************************************)
(* The relay: serve_bingeflix_m3u8 and proxy_hls.                          *)
(***************************************************************************)
\* a response: status, Content-Type, body, and the three headers proxy_hls
\* forwards (None when absent)
Response(status, content_type, body, content_length, accept_ranges, content_range) ==
    [status |-> status, content_type |-> content_type, body |-> body,
     content_length |-> content_length, accept_ranges |-> accept_ranges,
     content_range |-> content_range]

MpegUrlType == <<"a", "p", "p", "l", "i", "c", "a", "t", "i", "o", "n", "/", "v", "n", "d", ".", "a", "p", "p", "l", "e", ".", "m", "p", "e", "g", "u", "r", "l">>
XMpegUrlType == <<"a", "p", "p", "l", "i", "c", "a", "t", "i", "o", "n", "/", "x", "-", "m", "p", "e", "g", "u", "r", "l">>
OctetStreamType == <<"a", "p", "p", "l", "i", "c", "a", "t", "i", "o", "n", "/", "o", "c", "t", "e", "t", "-", "s", "t", "r", "e", "a", "m">>
JsonType == <<"a", "p", "p", "l", "i", "c", "a", "t", "i", "o", "n", "/", "j", "s", "o", "n">>
M3u8Suffix == <<".", "m", "3", "u", "8">>
HttpPrefix == <<"h", "t", "t", "p">>

\* jsonify({"error": message}), status
ErrorResponse(status, message) == Response(status, JsonType, message, None, None, None)
\* Response() of the OPTIONS branches
PreflightResponse == Response(200, <<>>, <<>>, None, None, None)
\* Response(text, mimetype='application/vnd.apple.mpegurl', ...)
ManifestResponse(text) == Response(200, MpegUrlType, text, None, None, None)

\* stripped and not stripped.startswith('#')
IsUriLine(stripped) == stripped # <<>> /\ ~StartsWith(stripped, <<"#">>)

\* segment_url of lines 2291-2294 and 2364-2367
SegmentUrl(stripped, base_url) ==
    IF StartsWith(stripped, HttpPrefix) THEN stripped ELSE base_url \o stripped

\* the test of line 2289 made on the line as it stands in the manifest
ServeRewriteLineAsGiven(line, base_url, referer) ==
    IF IsUriLine(line)
    THEN PassThroughUrl(SegmentUrl(Strip(line), base_url), referer)
    ELSE line

\* one turn of the loop of lines 2287-2298
ServeRewriteLine(line, base_url, referer) ==
    IF IsUriLine(Strip(line))
    THEN PassThroughUrl(SegmentUrl(Strip(line), base_url), referer)
    ELSE line

\* ServeRewrite with the blank lines left out of the output
ServeRewriteSkipsBlank(content, base_url, referer) ==
    LET kept == SelectSeq(Split(content, "\n"), LAMBDA l : Strip(l) # <<>>)
    IN  Join([i \in 1..Len(kept) |-> ServeRewriteLine(kept[i], base_url, referer)], "\n")

\* lines 2285-2300: the cached manifest with its URI lines rewritten
ServeRewrite(content, base_url, referer) ==
    Join([i \in 1..Len(Split(content, "\n")) |->
              ServeRewriteLine(Split(content, "\n")[i], base_url, referer)], "\n")

\* f"/api/hls/proxy?url={requests.utils.quote(url)}&referer={requests.utils.quote(referer)}":
\* requests.utils.quote is urllib's quote with its default safe='/'
ProxyQuotedUrl(url, referer) ==
    Concat(<<HlsProxyRoute, quote(url, {"/"}), RefererParam, quote(referer, {"/"})>>)

\* one turn of the loop of lines 2360-2372
ProxyRewriteLine(line, base_url, referer) ==
    IF IsUriLine(Strip(line))
    THEN ProxyQuotedUrl(SegmentUrl(Strip(line), base_url), referer)
    ELSE Strip(line)

\* lines 2354-2374: the fetched manifest with its URI lines rewritten
ProxyRewrite(content, url, referer) ==
    Join([i \in 1..Len(Split(content, "\n")) |->
              ProxyRewriteLine(Split(content, "\n")[i], BaseUrl(url), referer)], "\n")

\* ManifestMiss without the test of the entry's age
ManifestMissNoExpiry(stream_id, t) == stream_id \notin DOMAIN bingeflix_m3u8_cache

\* not cached or (time.time() - cached['timestamp']) > BINGEFLIX_CACHE_TTL
ManifestMiss(stream_id, t) ==
    \/ stream_id \notin DOMAIN bingeflix_m3u8_cache
    \/ t - bingeflix_m3u8_cache[stream_id].timestamp > BINGEFLIX_CACHE_TTL

NotFoundMessage == <<"S", "t", "r", "e", "a", "m", " ", "n", "o", "t", " ", "f", "o", "u", "n", "d", " ", "o", "r", " ", "e", "x", "p", "i", "r", "e", "d">>
UrlRequiredMessage == <<"U", "R", "L", " ", "p", "a", "r", "a", "m", "e", "t", "e", "r", " ", "i", "s", " ", "r", "e", "q", "u", "i", "r", "e", "d">>
UpstreamErrorMessage == <<"s", "t", "r", "(", "e", ")">>

\* what serve_bingeflix_m3u8(stream_id) answers to a request of the method
ServeResponse(method, stream_id) ==
    IF method = "OPTIONS" THEN PreflightResponse
    ELSE IF ManifestMiss(stream_id, now) THEN ErrorResponse(404, NotFoundMessage)
    ELSE ManifestResponse(ServeRewrite(bingeflix_m3u8_cache[stream_id].content,
                                       bingeflix_m3u8_cache[stream_id].base_url,
                                       bingeflix_m3u8_cache[stream_id].referer))

\* serve_bingeflix_m3u8 made to take the semaphore for the time of the
\* rewrite: it waits while the worker runs
serve_bingeflix_m3u8_gated(method, stream_id, limit) ==
    /\ returned = NoReturn
    /\ BagCardinality(calls) < limit
    /\ bingeflix_lock > 0
    /\ returned' = [call |-> "serve_bingeflix_m3u8", method |-> method,
                    stream_id |-> stream_id, response |-> ServeResponse(method, stream_id)]
    /\ UNCHANGED <<bingeflix_cache, bingeflix_m3u8_cache, bingeflix_lock, now, calls,
                 running_workers, scraper, party, friendships>>

\* a request to /api/hls/bingeflix/<stream_id>: the handler never suspends
serve_bingeflix_m3u8(method, stream_id, limit) ==
    /\ returned = NoReturn
    /\ BagCardinality(calls) < limit
    /\ returned' = [call |-> "serve_bingeflix_m3u8", method |-> method,
                    stream_id |-> stream_id, response |-> ServeResponse(method, stream_id)]
    /\ UNCHANGED <<bingeflix_cache, bingeflix_m3u8_cache, bingeflix_lock, now, calls,
                 running_workers, scraper, party, friendships>>

\* the stream ids a client may ask for: the keys of the requests, and another
StreamIds == {cache_key(r) : r \in Requests} \cup {<<"0">>}

\* a request to /api/hls/proxy: its method, its url and referer parameters and
\* its Range header, None when absent
ProxyRequest(method, url, referer, range) ==
    [method |-> method, url |-> url, referer |-> referer, range |-> range]
SegmentUrlX == <<"h", "t", "t", "p", "s", ":", "/", "/", "x", ".", "i", "o", "/", "a", "/", "s", ".", "t", "s">>
ProxyRequests ==
    {ProxyRequest("OPTIONS", None, None, None),
     ProxyRequest("GET", None, Some(RefX), None),
     ProxyRequest("GET", Some(UrlPlain), Some(RefX), None),
     ProxyRequest("GET", Some(SegmentUrlX), None, Some("bytes=100-199"))}

\* the headers of the upstream fetch, lines 2334-2343
UpstreamHeaders(q) ==
    [Referer |-> GetOr(q.referer, DefaultVidnestReferer),
     Origin |-> RStrip(GetOr(q.referer, DefaultVidnestReferer), {"/"}),
     Range |-> q.range]

\* lines 2322-2345, up to the suspension in requests.get
ProxyStart(q, limit) ==
    /\ returned = NoReturn
    /\ BagCardinality(calls) < limit
    /\ IF q.method = "OPTIONS"
       THEN /\ returned' = [call |-> "proxy_hls", request |-> q, response |-> PreflightResponse]
            /\ UNCHANGED calls
       ELSE IF ~Truthy(q.url)
       THEN /\ returned' = [call |-> "proxy_hls", request |-> q,
                            response |-> ErrorResponse(400, UrlRequiredMessage)]
            /\ UNCHANGED calls
       ELSE /\ calls' = calls (+) SetToBag({[at |-> "proxy_get", request |-> q,
                                             upstream |-> UpstreamHeaders(q)]})
            /\ returned' = NoReturn
    /\ UNCHANGED <<bingeflix_cache, bingeflix_m3u8_cache, bingeflix_lock, now,
                 running_workers, scraper, party, friendships>>

\* the outcome of requests.get and raise_for_status: the exception raised if
\* any (an HTTP error status raises HTTPError, a RequestException), the status,
\* the headers (None when absent) and the body
Upstream(raised, status_code, content_type, content_length, accept_ranges, content_range, body) ==
    [raised |-> raised, status_code |-> status_code, content_type |-> content_type,
     content_length |-> content_length, accept_ranges |-> accept_ranges,
     content_range |-> content_range, body |-> body]
VideoType == <<"v", "i", "d", "e", "o", "/", "m", "p", "2", "t">>
SegmentBytes == <<"G", "@">>
UpstreamResponses ==
    {Upstream("RequestException", 0, None, None, None, None, <<>>),
     Upstream("Exception", 0, None, None, None, None, <<>>),
     Upstream("none", 200, Some(MpegUrlType), None, None, None, BodyM),
     Upstream("none", 200, None, Some("2"), None, None, SegmentBytes),
     Upstream("none", 206, Some(VideoType), Some("2"), Some("bytes"),
              Some("bytes 100-101/500"), SegmentBytes)}

\* the test of line 2351: the upstream answer is taken for a manifest
IsManifest(url, content_type) ==
    \/ Contains(url, M3u8Suffix)
    \/ Contains(content_type, MpegUrlType)
    \/ Contains(content_type, XMpegUrlType)

\* a handler that lets the HTTPError of raise_for_status fall to "except Exception"
IsRequestExceptionButHTTPError(raised) ==
    raised \in {"RequestException", "ConnectionError", "Timeout"}

\* the exception is caught by "except requests.exceptions.RequestException":
\* HTTPError (raised by raise_for_status), ConnectionError and Timeout are
\* subclasses of it
IsRequestException(raised) ==
    raised \in {"RequestException", "HTTPError", "ConnectionError", "Timeout"}

\* what proxy_hls answers once requests.get has returned or raised, lines 2346-2414
ProxyResponse(q, resp) ==
    IF IsRequestException(resp.raised) THEN ErrorResponse(502, UpstreamErrorMessage)
    ELSE IF resp.raised # "none" THEN ErrorResponse(500, UpstreamErrorMessage)
    ELSE IF IsManifest(q.url[1], GetOr(resp.content_type, OctetStreamType))
    THEN ManifestResponse(ProxyRewrite(resp.body, q.url[1],
                                       GetOr(q.referer, DefaultVidnestReferer)))
    ELSE Response(resp.status_code, GetOr(resp.content_type, OctetStreamType), resp.body,
                  resp.content_length, resp.accept_ranges, resp.content_range)

\* lines 2346-2414 once requests.get has returned or raised
ProxyReturn(c, resp) ==
    /\ returned = NoReturn
    /\ c.at = "proxy_get"
    /\ returned' = [call |-> "proxy_hls", request |-> c.request, upstream |-> c.upstream,
                    response |-> ProxyResponse(c.request, resp)]
    /\ Ends(c)
    /\ UNCHANGED <<bingeflix_cache, bingeflix_m3u8_cache, bingeflix_lock, now,
                 running_workers, scraper, party, friendships>>

\* the result or response of the last step reaches its caller; the step that
\* follows a return is this one, which changes nothing of the program's state
Deliver ==
    /\ returned # NoReturn
    /\ returned' = NoReturn
    /\ UNCHANGED <<bingeflix_cache, bingeflix_m3u8_cache, bingeflix_lock, now, calls,
                 running_workers, scraper, party, friendships>>

\* time passes, to one of the instants of clock
Tick(clock) ==
    /\ returned = NoReturn
    /\ \E t \in clock : t > now /\ now' = t
    /\ returned' = NoReturn
    /\ UNCHANGED <<bingeflix_cache, bingeflix_m3u8_cache, bingeflix_lock, calls,
                 running_workers, scraper, party, friendships>>

\* a step of the server with at most limit requests in service, the clock
\* observed at the instants of clock; the clients ask for the streams of
\* requests and the relay URLs of proxied, the worker ends as one of workers
\* and the upstream answers as one of upstreams
Step(limit, clock, requests, workers, proxied, upstreams) ==
    \/ \E r \in requests : ResolveStart(r, limit)
    \/ \E r \in requests, movie \in CatalogMovies : CatalogRejects(r, movie, limit)
    \/ \E c \in BagToSet(calls), result \in workers, t2 \in clock :
           WorkerReturn(c, result, t2)
    \/ \E c \in BagToSet(calls), resp \in ScraperResponses : ScraperReturn(c, resp)
    \/ \E c \in BagToSet(calls), resp \in EmbedResponses : EmbedReturn(c, resp)
    \/ \E c \in BagToSet(calls), resp \in IframeResponses : IframeReturn(c, resp)
    \/ \E method \in {"GET", "OPTIONS"}, stream_id \in StreamIds :
           serve_bingeflix_m3u8(method, stream_id, limit)
    \/ \E q \in proxied : ProxyStart(q, limit)
    \/ \E c \in BagToSet(calls), resp \in upstreams : ProxyReturn(c, resp)
    \/ Tick(clock)
    \/ Deliver

\* concurrent requests, the clock observed at the start and past the TTL
CoarseClock == {0, BINGEFLIX_CACHE_TTL + 1}
Next == Step(MaxCalls, CoarseClock, Requests, WorkerResults, ProxyRequests, UpstreamResponses)
Spec == Init /\ [][Next]_vars

\* one request at a time, the clock observed at every instant of ClockValues
NextSeq == Step(1, ClockValues, Requests, WorkerResults, ProxyRequests, UpstreamResponses)
SpecSeq == Init /\ [][NextSeq]_vars

(***************************************************************************)
(* The relay on its own: one stream, one request at a time, and manifests, *)
(* relay URLs and upstream answers of more kinds.                          *)
(***************************************************************************)
\* a captured manifest with CRLF line ends, a URI line in spaces, an empty
\* line, an absolute URI, a relative URI whose first letters are "http", a
\* line of spaces and a last line without newline
BodyMixed == <<"#", "E", "\r", "\n", " ", "v", "/", "l", ".", "t", "s", "\r", "\n", "\n", "h", "t", "t", "p", "s", ":", "/", "/", "c", ".", "i", "o", "/", "s", ".", "t", "s", "\n", "h", "t", "t", "p", "d", "/", "s", ".", "t", "s", "\n", " ", " ", "\n", "#", "x">>
\* a manifest with a line of whitespace only and a comment after a space
BodyIndented == <<"\t", "\n", " ", "#", "c", "\n", "v", ".", "t", "s">>
\* a segment in a directory whose name ends in .m3u8
SegmentInM3u8Dir == <<"h", "t", "t", "p", "s", ":", "/", "/", "x", ".", "i", "o", "/", "a", ".", "m", "3", "u", "8", "/", "s", ".", "t", "s">>

RelayStreams == {[tmdb_id |-> 7, content_type |-> MOVIE, season |-> None, episode |-> None]}
RelayWorkerResults ==
    {WorkerRun("TimeoutExpired", 0, FALSE, NoData),
     WorkerRun("none", 0, TRUE,
               [success |-> TRUE, hls_url |-> Some(UrlPlain), hls_content |-> Some(BodyM),
                referer |-> Some(RefX), subtitles |-> None]),
     WorkerRun("none", 0, TRUE,
               [success |-> TRUE, hls_url |-> Some(UrlQuery), hls_content |-> Some(BodyMixed),
                referer |-> None, subtitles |-> None]),
     WorkerRun("none", 0, TRUE,
               [success |-> TRUE, hls_url |-> Some(UrlQuery), hls_content |-> None,
                referer |-> Some(RefX), subtitles |-> None]),
     WorkerRun("none", 0, TRUE,
               [success |-> TRUE, hls_url |-> Some(UrlPlain), hls_content |-> Some(BodyIndented),
                referer |-> Some(RefX), subtitles |-> None])}
RelayRequests ==
    ProxyRequests \cup
    {ProxyRequest("GET", Some(SegmentUrlX), Some(RefX), None),
     ProxyRequest("GET", Some(UrlQuery), None, None),
     ProxyRequest("GET", Some(SegmentInM3u8Dir), Some(RefX), Some("bytes=100-199"))}
RelayUpstreams ==
    UpstreamResponses \cup
    {Upstream("HTTPError", 404, None, None, None, None, <<>>),
     Upstream("ConnectionError", 0, None, None, None, None, <<>>),
     Upstream("Timeout", 0, None, None, None, None, <<>>),
     Upstream("none", 200, Some(XMpegUrlType), None, None, None, BodyMixed),
     Upstream("none", 200, Some(MpegUrlType), None, None, None, BodyIndented)}

NextRelay ==
    Step(1, ClockValues, RelayStreams, RelayWorkerResults, RelayRequests, RelayUpstreams)
SpecRelay == Init /\ [][NextRelay]_vars

\* concurrent requests for one stream whose worker either runs into the
\* timeout or succeeds
GateWorkerResults ==
    {WorkerRun("TimeoutExpired", 0, FALSE, NoData),
     WorkerRun("none", 0, TRUE,
               [success |-> TRUE, hls_url |-> Some(UrlPlain), hls_content |-> Some(BodyM),
                referer |-> Some(RefX), subtitles |-> None])}
NextGate ==
    Step(MaxCalls, CoarseClock, RelayStreams, GateWorkerResults, ProxyRequests,
         UpstreamResponses)
SpecGate == Init /\ [][NextGate]_vars

\* the local states a resolution can be suspended in: at the worker (timeout
\* 90 s, line 1482), at the remote service (60 s, line 1572), at the embed
\* page and at the iframe page (10 s each, lines 1651 and 1671)
SuspendedResolutions ==
    LET skipped == {"busy", "fail"}
    IN  {Call("tpool", r, <<Tier(1, "running")>>) : r \in RelayStreams}
        \cup {Call("scraper_get", r, <<Tier(1, o), Tier(2, "running")>>) :
                  r \in RelayStreams, o \in skipped}
        \cup {Call(at, r, <<Tier(1, o), Tier(2, "fail"), Tier(3, "running")>>) :
                  at \in {"embed_get", "iframe_get"}, r \in RelayStreams, o \in skipped}

\* the blocking call the resolution c is suspended in returns or raises
ReturnOf(c) ==
    /\ c \in BagToSet(calls)
    /\ \/ \E result \in GateWorkerResults, t2 \in CoarseClock : WorkerReturn(c, result, t2)
       \/ \E resp \in ScraperResponses : ScraperReturn(c, resp)
       \/ \E resp \in EmbedResponses : EmbedReturn(c, resp)
       \/ \E resp \in IframeResponses : IframeReturn(c, resp)

\* every blocking call of a resolution has a timeout, so each suspended
\* resolution goes on whatever the others do: its return is taken if it is
\* possible again and again (it is not in the one step between another
\* call's return and its delivery); and what a call returned is delivered
Fairness ==
    /\ \A c \in SuspendedResolutions : SF_vars(ReturnOf(c))
    /\ WF_vars(Deliver)
SpecFair == Init /\ [][NextGate]_vars /\ Fairness

(***************************************************************************)
(* The resolver's contract.                                                *)
(***************************************************************************)
\* the calls in service that are suspended at the given point
Suspended(at) == {c \in BagToSet(calls) : c.at = at}

\* how many calls are suspended at the given point
CallsAt(at) == BagCardinality([c \in Suspended(at) |-> CopiesIn(c, calls)])

\* the step returned from extract_vidsrc_stream
ResolveReturned == returned.call = "extract_vidsrc_stream"

\* no tier of the log gave a usable URL
NoTierSucceeded(log) == \A i \in 1..Len(log) : log[i].outcome \in {"busy", "fail"}

\* the embed page of a request on vidsrc.to: /embed/movie/<id> for a movie,
\* /embed/tv/<id>/<season>/<episode> for an episode of a series
CanonicalEmbedUrl(r) ==
    IF r.content_type = MOVIE
    THEN <<"h", "t", "t", "p", "s", ":", "/", "/", "v", "i", "d", "s", "r", "c", ".", "t", "o", "/", "e", "m", "b", "e", "d", "/", "m", "o", "v", "i", "e", "/">> \o Str(r.tmdb_id)
    ELSE Concat(<<<<"h", "t", "t", "p", "s", ":", "/", "/", "v", "i", "d", "s", "r", "c", ".", "t", "o", "/", "e", "m", "b", "e", "d", "/", "t", "v", "/">>, Str(r.tmdb_id), <<"/">>,
                  Str(r.season[1]), <<"/">>, Str(r.episode[1])>>)

\* C1: extract_vidsrc_stream never hands an exception to its caller: whatever
\* the tiers did (raised, timed out, found nothing, found the semaphore taken)
\* it returns a direct or embed result with a non-empty url, and when all
\* three tiers failed the result is the embed of the request's canonical
\* embed URL.
C1_EmbedFallback ==
    ResolveReturned =>
        /\ returned.result.type \in {"direct", "embed"}
        /\ returned.result.url # <<>>
        /\ (Len(returned.tiers) = 3 /\ NoTierSucceeded(returned.tiers)) =>
               /\ returned.result.type = "embed"
               /\ returned.result.url = CanonicalEmbedUrl(returned.request)

\* an episode's resolution found the semaphore taken, then tier 2 and tier 3
\* failed, and it returned
C1_Witness ==
    /\ ResolveReturned
    /\ returned.request.content_type = TV
    /\ Len(returned.tiers) = 3
    /\ returned.tiers[1].outcome = "busy"
    /\ NoTierSucceeded(returned.tiers)
    /\ returned.result.type = "embed"

\* the Result Cache entry of key k is within its TTL
WithinTTL(k) ==
    /\ k \in DOMAIN bingeflix_cache
    /\ now - bingeflix_cache[k].timestamp < BINGEFLIX_CACHE_TTL

\* the worker ran to a result with a manifest URL: no exception, exit code 0,
\* stdout a JSON object with success true and a non-empty hls_url
WorkerSucceeded(result) ==
    /\ result.raised = "none" /\ result.returncode = 0 /\ result.parses
    /\ result.data.success
    /\ result.data.hls_url # None /\ result.data.hls_url # Some(<<>>)

\* the worker's result carries a manifest body
HasBody(result) ==
    result.data.hls_content # None /\ result.data.hls_content # Some(<<>>)

\* C2: a tier-1 success with a captured body leaves an entry for the request's
\* key in both caches; a resolution that starts while the Result Cache entry
\* of its key is within the TTL returns that entry's url in the same step,
\* with no tier started; and an entry within its TTL keeps its url.
C2_CachedThenHit ==
    [][/\ \A c \in Suspended("tpool"), result \in WorkerResults, t2 \in ClockValues :
              (WorkerSucceeded(result) /\ HasBody(result) /\ WorkerReturn(c, result, t2)) =>
                  /\ cache_key(c.request) \in DOMAIN bingeflix_cache'
                  /\ cache_key(c.request) \in DOMAIN bingeflix_m3u8_cache'
       /\ \A r \in Requests :
              (WithinTTL(cache_key(r)) /\ ResolveStart(r, MaxCalls)) =>
                  /\ returned'.call = "extract_vidsrc_stream"
                  /\ returned'.tiers = <<>>
                  /\ returned'.result.url = bingeflix_cache[cache_key(r)].data.url
                  /\ calls' = calls
       /\ \A k \in DOMAIN bingeflix_cache :
              WithinTTL(k) =>
                  /\ k \in DOMAIN bingeflix_cache'
                  /\ bingeflix_cache'[k].data.url = bingeflix_cache[k].data.url
      ]_vars

\* some time after the entry was written, a resolution was served the
\* cache-backed manifest URL from the Result Cache, with no tier started,
\* while the Manifest Cache holds its key
C2_Witness ==
    /\ ResolveReturned
    /\ returned.tiers = <<>>
    /\ returned.result.url = HlsBingeflixRoute \o cache_key(returned.request)
    /\ cache_key(returned.request) \in DOMAIN bingeflix_m3u8_cache
    /\ WithinTTL(cache_key(returned.request))
    /\ now > bingeflix_cache[cache_key(returned.request)].timestamp

\* the tiers of a log are 1, 2, 3 in this order, each once, every tier but
\* the last having ended without a usable URL, and only tier 1 can be busy
InOrder(log) ==
    /\ Len(log) <= 3
    /\ \A i \in 1..Len(log) : log[i].tier = i
    /\ \A i \in 1..(Len(log) - 1) : log[i].outcome \in {"busy", "fail"}
    /\ \A i \in 2..Len(log) : log[i].outcome # "busy"

\* the tier a resolution is suspended in
TierAt(at) ==
    CASE at = "tpool" -> 1 [] at = "scraper_get" -> 2
      [] at = "embed_get" -> 3 [] at = "iframe_get" -> 3

\* the result comes from tier n
FromTier(result, n) ==
    CASE n = 1 -> result.type = "direct" /\ result.source = "bingeflix"
      [] n = 2 -> result.type = "direct" /\ result.source \in {"vidnest.fun", "vidsrc.cc", "vidlink.pro"}
      [] n = 3 -> result.type = "direct" /\ result.source = "vidsrc.to"

\* C3: on a cache miss the tiers run one after the other in the order worker,
\* remote service, HTML fallback: the one running is the last of the log, all
\* before it ended without a usable URL, none occurs twice, and a resolution
\* returns at the first tier that gives a URL, with that tier's result.
C3_TiersSequential ==
    /\ \A c \in BagToSet(calls) :
           c.at # "proxy_get" =>
               /\ c.tiers # <<>>
               /\ InOrder(c.tiers)
               /\ c.tiers[Len(c.tiers)] = Tier(TierAt(c.at), "running")
    /\ (ResolveReturned /\ returned.tiers # <<>>) =>
           LET log == returned.tiers
               last == log[Len(log)]
           IN  /\ InOrder(log)
               /\ last.outcome \in {"ok", "fail"}
               /\ last.outcome = "fail" => Len(log) = 3 /\ returned.result.type = "embed"
               /\ last.outcome = "ok" => FromTier(returned.result, last.tier)

\* a resolution went through tier 1 and tier 2 without a URL and returned
\* the manifest URL tier 3 found
C3_Witness ==
    /\ ResolveReturned
    /\ Len(returned.tiers) = 3
    /\ returned.tiers[1].outcome = "fail"
    /\ returned.tiers[3].outcome = "ok"
    /\ returned.result.type = "direct"

\* the last tier of a non-empty log
LastTier(log) == log[Len(log)]

C5_NonBlockingAcquire ==
    [][\A r \in Requests :
          (~WithinTTL(cache_key(r)) /\ ResolveStart(r, MaxCalls)) =>
              IF bingeflix_lock = 1
              THEN /\ bingeflix_lock' = 0
                   /\ calls' = calls (+) SetToBag({Call("tpool", r, <<Tier(1, "running")>>)})
              ELSE /\ bingeflix_lock' = bingeflix_lock
                   /\ calls' = calls (+) SetToBag({Call("scraper_get", r,
                                                        <<Tier(1, "busy"), Tier(2, "running")>>)})
      ]_vars

\* two resolutions of the same request: the first waits for the worker, the
\* second found the semaphore taken and is in tier 2
C5_Witness ==
    \E c, d \in BagToSet(calls) :
        /\ c.at = "tpool" /\ d.at = "scraper_get"
        /\ c.request = d.request
        /\ d.tiers[1].outcome = "busy"

\* C6: at most one worker subprocess is in flight at any time, and one is in
\* flight only while the semaphore is taken.
C6_OneWorker ==
    /\ CallsAt("tpool") <= 1
    /\ CallsAt("tpool") = 1 => bingeflix_lock = 0

\* a worker is in flight while a second request is in service
C6_Witness ==
    /\ CallsAt("tpool") = 1
    /\ BagCardinality(calls) = MaxCalls
    /\ bingeflix_lock = 0

\* C7: acquires and releases balance.  The counter of the semaphore is 0 or
\* 1, and it is 0 exactly while a resolution is between its successful
\* acquire and the end of its guarded region: every exit of the region
\* (result, failure, timeout, exception) releases once, and a cache hit or a
\* failed acquire releases nothing.
C7_ReleaseBalanced ==
    /\ bingeflix_lock \in {0, 1}
    /\ bingeflix_lock + CallsAt("tpool") = 1

\* a resolution left the guarded region by the timeout of the worker and is
\* in tier 2, the semaphore free again
C7_Witness ==
    /\ bingeflix_lock = 1
    /\ \E c \in BagToSet(calls) : c.at = "scraper_get" /\ c.tiers[1].outcome = "fail"

\* a step of tier 2, of tier 3 or of the relay
UngatedStep ==
    \/ \E c \in BagToSet(calls), resp \in ScraperResponses : ScraperReturn(c, resp)
    \/ \E c \in BagToSet(calls), resp \in EmbedResponses : EmbedReturn(c, resp)
    \/ \E c \in BagToSet(calls), resp \in IframeResponses : IframeReturn(c, resp)
    \/ \E method \in {"GET", "OPTIONS"}, stream_id \in StreamIds :
           serve_bingeflix_m3u8(method, stream_id, MaxCalls)
    \/ \E q \in ProxyRequests : ProxyStart(q, MaxCalls)
    \/ \E c \in BagToSet(calls), resp \in UpstreamResponses : ProxyReturn(c, resp)

\* C8: a resolution that finds the semaphore taken skips tier 1 and is in
\* tier 2 at once; tier 2, tier 3, serve_bingeflix_m3u8 and proxy_hls neither
\* take nor wait for the semaphore: their steps leave it alone, and while a
\* worker holds it a relay request can be served and every call suspended in
\* tier 2, tier 3 or the relay can go on.  (No step that changes the
\* semaphore is a step of theirs.)
C8_OnlyTier1Gated ==
    /\ [][/\ bingeflix_lock' # bingeflix_lock => ~UngatedStep
          /\ \A r \in Requests :
                 (bingeflix_lock = 0 /\ ~WithinTTL(cache_key(r)) /\ ResolveStart(r, MaxCalls)) =>
                     /\ calls' = calls (+) SetToBag({Call("scraper_get", r,
                                                          <<Tier(1, "busy"), Tier(2, "running")>>)})
                     /\ bingeflix_lock' = 0
         ]_vars
    /\ []((bingeflix_lock = 0 /\ returned = NoReturn) =>
             /\ BagCardinality(calls) < MaxCalls =>
                    /\ ENABLED (\E stream_id \in StreamIds :
                                    serve_bingeflix_m3u8("GET", stream_id, MaxCalls))
                    /\ ENABLED (\E q \in ProxyRequests : ProxyStart(q, MaxCalls))
             /\ \A c \in BagToSet(calls) :
                    /\ c.at = "scraper_get" =>
                           ENABLED (\E resp \in ScraperResponses : ScraperReturn(c, resp))
                    /\ c.at = "embed_get" =>
                           ENABLED (\E resp \in EmbedResponses : EmbedReturn(c, resp))
                    /\ c.at = "iframe_get" =>
                           ENABLED (\E resp \in IframeResponses : IframeReturn(c, resp))
                    /\ c.at = "proxy_get" =>
                           ENABLED (\E resp \in UpstreamResponses :
                                        resp.raised # "none" /\ ProxyReturn(c, resp)))

\* a relay fetch returned to its client while a worker held the semaphore
C8_Witness ==
    /\ bingeflix_lock = 0
    /\ CallsAt("tpool") = 1
    /\ returned.call = "proxy_hls"
    /\ returned.response.status = 200

\* C9: a worker that exits with a non-zero code, times out, raises, prints
\* something that is no JSON, reports success false or gives no hls_url is a
\* tier-1 failure: extract_bingeflix_stream returns nothing, neither cache is
\* written, and the resolution goes on with tier 2.
C9_WorkerFailure ==
    [][\A c \in Suspended("tpool"), result \in WorkerResults, t2 \in ClockValues :
          (~WorkerSucceeded(result) /\ WorkerReturn(c, result, t2)) =>
              /\ returned' = NoReturn
              /\ bingeflix_cache' = bingeflix_cache
              /\ bingeflix_m3u8_cache' = bingeflix_m3u8_cache
              /\ calls' = (calls (-) SetToBag({c}))
                              (+) SetToBag({Call("scraper_get", c.request,
                                                 <<Tier(1, "fail"), Tier(2, "running")>>)})
      ]_vars

\* after a success that filled both caches and the expiry of its entry, the
\* worker failed for the same request: the resolution is in tier 2 and the
\* caches still hold the old entries
C9_Witness ==
    \E c \in BagToSet(calls) :
        /\ c.at = "scraper_get"
        /\ c.tiers[1].outcome = "fail"
        /\ cache_key(c.request) \in DOMAIN bingeflix_cache
        /\ cache_key(c.request) \in DOMAIN bingeflix_m3u8_cache
        /\ ~WithinTTL(cache_key(c.request))

\* the character of a percent escape %hl
Unescape(h, l) ==
    CASE <<h, l>> = <<"2", "F">> -> "/"  [] <<h, l>> = <<"3", "A">> -> ":"
      [] <<h, l>> = <<"3", "F">> -> "?"  [] <<h, l>> = <<"3", "D">> -> "="
      [] <<h, l>> = <<"2", "6">> -> "&"  [] <<h, l>> = <<"2", "3">> -> "#"
      [] <<h, l>> = <<"2", "5">> -> "%"  [] <<h, l>> = <<"2", "C">> -> ","
      [] <<h, l>> = <<"4", "0">> -> "@"  [] <<h, l>> = <<"2", "8">> -> "("
      [] <<h, l>> = <<"2", "9">> -> ")"  [] <<h, l>> = <<"2", "0">> -> " "
      [] <<h, l>> = <<"0", "9">> -> "\t" [] <<h, l>> = <<"0", "D">> -> "\r"
      [] <<h, l>> = <<"0", "A">> -> "\n"

RECURSIVE Unquote(_)
\* percent-decoding, as the server decodes a query argument
Unquote(s) ==
    IF s = <<>> THEN <<>>
    ELSE IF Head(s) = "%" /\ Len(s) >= 3
    THEN <<Unescape(s[2], s[3])>> \o Unquote(SubSeq(s, 4, Len(s)))
    ELSE <<Head(s)>> \o Unquote(Tail(s))

\* the value of the query argument name of a URL, as request.args.get reads
\* it: the query is what follows the first '?', its fields are separated by
\* '&', a field is name=value, and the value is percent-decoded; None when
\* the URL has no such argument
QueryArg(url, name) ==
    LET marks == Positions(url, "?")
        query == IF marks = {} THEN <<>> ELSE SubSeq(url, Min(marks) + 1, Len(url))
        fields == Split(query, "&")
        named == {i \in 1..Len(fields) : StartsWith(fields[i], name \o <<"=">>)}
    IN  IF named = {} THEN None
        ELSE Some(Unquote(SubSeq(fields[Min(named)], Len(name) + 2, Len(fields[Min(named)]))))

\* base is url up to and including its last '/'
IsBaseOf(base, url) ==
    \E n \in 1..Len(url) :
        /\ base = SubSeq(url, 1, n)
        /\ url[n] = "/"
        /\ \A i \in (n + 1)..Len(url) : url[i] # "/"

\* C10: when tier 1 succeeds with a captured body, the Manifest Cache gets,
\* under the request's key, the entry {body, referer, base_url, timestamp},
\* with the worker's referer or the default one, the manifest URL up to its
\* last '/' and the time of the write, and the returned url is the
\* cache-backed manifest URL of the key.  When it succeeds without a body, the
\* Manifest Cache is left as it was and the returned url is the pass-through
\* relay URL whose url and referer arguments decode to the worker's hls_url
\* and to that referer.
C10_ManifestOrPassThrough ==
    [][\A c \in Suspended("tpool"), result \in WorkerResults, t2 \in ClockValues :
          (WorkerSucceeded(result) /\ WorkerReturn(c, result, t2)) =>
              LET key == cache_key(c.request)
                  hls_url == result.data.hls_url[1]
                  referer == IF result.data.referer = None THEN DefaultBingeflixReferer
                             ELSE result.data.referer[1]
                  url == returned'.result.url
              IN  IF HasBody(result)
                  THEN /\ DOMAIN bingeflix_m3u8_cache' = DOMAIN bingeflix_m3u8_cache \cup {key}
                       /\ bingeflix_m3u8_cache'[key].content = result.data.hls_content[1]
                       /\ bingeflix_m3u8_cache'[key].referer = referer
                       /\ IsBaseOf(bingeflix_m3u8_cache'[key].base_url, hls_url)
                       /\ bingeflix_m3u8_cache'[key].timestamp = now
                       /\ \A k \in DOMAIN bingeflix_m3u8_cache \ {key} :
                              bingeflix_m3u8_cache'[k] = bingeflix_m3u8_cache[k]
                       /\ url = HlsBingeflixRoute \o key
                  ELSE /\ bingeflix_m3u8_cache' = bingeflix_m3u8_cache
                       /\ SubSeq(url, 1, Len(HlsProxyRoute)) = HlsProxyRoute
                       /\ QueryArg(url, <<"u", "r", "l">>) = Some(hls_url)
                       /\ QueryArg(url, <<"r", "e", "f", "e", "r", "e", "r">>) = Some(referer)
      ]_vars

\* tier 1 returned a pass-through URL for a request whose earlier resolution
\* had captured a body: the Manifest Cache still holds that entry
C10_Witness ==
    /\ ResolveReturned
    /\ returned.tiers = <<Tier(1, "ok")>>
    /\ StartsWith(returned.result.url, HlsProxyRoute)
    /\ cache_key(returned.request) \in DOMAIN bingeflix_m3u8_cache
    /\ bingeflix_m3u8_cache[cache_key(returned.request)].timestamp < now

(***************************************************************************)
(* The relay's contract.                                                   *)
(***************************************************************************)
\* C11: every result of type direct that extract_vidsrc_stream returns,
\* whichever tier gave it, has a url of this service's relay: the
\* cache-backed manifest route or the pass-through route; never the manifest
\* URL of the third party itself.
C11_DirectThroughRelay ==
    (ResolveReturned /\ returned.result.type = "direct") =>
        \/ StartsWith(returned.result.url, HlsBingeflixRoute)
        \/ StartsWith(returned.result.url, HlsProxyRoute)

\* the path part of a URL: what precedes its query ('?') and fragment ('#')
PathOf(url) ==
    LET marks == Positions(url, "?") \cup Positions(url, "#")
    IN  IF marks = {} THEN url ELSE SubSeq(url, 1, Min(marks) - 1)

\* the path of a URL with its last segment removed: it ends with '/'
DirOf(url) ==
    LET slashes == Positions(PathOf(url), "/")
    IN  IF slashes = {} THEN <<>> ELSE SubSeq(url, 1, Max(slashes))

\* extract_vidsrc_stream returned the cache-backed manifest URL of tier 1
Tier1Captured ==
    /\ ResolveReturned
    /\ returned.tiers = <<Tier(1, "ok")>>
    /\ returned.result.url = HlsBingeflixRoute \o cache_key(returned.request)

\* proxy_hls answered with a rewritten manifest
ProxyRewrote ==
    /\ returned.call = "proxy_hls"
    /\ "upstream" \in DOMAIN returned
    /\ returned.response.status = 200
    /\ returned.response.content_type = MpegUrlType

\* C12: for every manifest URL tier 1 accepts, also one whose query string
\* holds a '/', the base_url of the Manifest Cache entry is the URL's path
\* with its last segment removed, ending with '/'; and so is the base_url
\* proxy_hls derives from the URL it fetched.
C12_BaseUrlIsDirectory ==
    /\ Tier1Captured =>
           bingeflix_m3u8_cache[cache_key(returned.request)].base_url
               = DirOf(returned.result.original_url)
    /\ ProxyRewrote => BaseUrl(returned.request.url[1]) = DirOf(returned.request.url[1])

\* the lines of a manifest
Lines(text) == Split(text, "\n")

\* a URI line: without the whitespace around it, it is not empty and does not
\* start with '#'
UriLine(line) == Strip(line) # <<>> /\ Head(Strip(line)) # "#"

\* a URL of the pass-through relay route
IsRelayUrl(line) == StartsWith(line, HlsProxyRoute)

\* output has the lines of input, one for one and in order, with the URI
\* lines, and only them, replaced by relay URLs
SameStructure(input, output) ==
    /\ Len(Lines(output)) = Len(Lines(input))
    /\ \A i \in 1..Len(Lines(input)) :
           /\ IsRelayUrl(Lines(output)[i]) <=> UriLine(Lines(input)[i])
           /\ ~UriLine(Lines(input)[i]) => Strip(Lines(output)[i]) = Strip(Lines(input)[i])
    /\ Cardinality({i \in 1..Len(Lines(output)) : IsRelayUrl(Lines(output)[i])})
           = Cardinality({i \in 1..Len(Lines(input)) : UriLine(Lines(input)[i])})

\* the upstream answer resp is rewritten as a manifest for a fetch of url
RewrittenAsManifest(url, resp) ==
    /\ resp.raised = "none"
    /\ \/ Contains(url, M3u8Suffix)
       \/ resp.content_type # None /\ Contains(resp.content_type[1], MpegUrlType)
       \/ resp.content_type # None /\ Contains(resp.content_type[1], XMpegUrlType)

\* C13: in both rewriters the output has as many lines as the body, in the
\* same order, and its i-th line is a relay URL exactly when the i-th line
\* of the body is a URI line (the line without the whitespace around it is
\* not empty and does not start with '#'): N URI lines give N relay URLs.
C13_SameLines ==
    [][/\ \A stream_id \in StreamIds :
              (serve_bingeflix_m3u8("GET", stream_id, 1) /\ returned'.response.status = 200) =>
                  SameStructure(bingeflix_m3u8_cache[stream_id].content,
                                returned'.response.body)
       /\ \A c \in Suspended("proxy_get"), resp \in RelayUpstreams :
              (RewrittenAsManifest(c.request.url[1], resp) /\ ProxyReturn(c, resp)) =>
                  SameStructure(resp.body, returned'.response.body)
      ]_vars

\* the cache-backed route served the manifest that holds every kind of line
C13_Witness ==
    /\ returned.call = "serve_bingeflix_m3u8"
    /\ returned.response.status = 200
    /\ returned.method = "GET"
    /\ bingeflix_m3u8_cache[returned.stream_id].content = BodyMixed

\* every line of input that is no URI line stands in output as it is
NonUriVerbatim(input, output) ==
    /\ Len(Lines(output)) = Len(Lines(input))
    /\ \A i \in 1..Len(Lines(input)) :
           ~UriLine(Lines(input)[i]) => Lines(output)[i] = Lines(input)[i]

\* C14: in both rewriters every line that is no URI line (tag, comment, blank
\* line) stands in the output character for character as in the body, with
\* its leading and trailing whitespace and its carriage return.
C14_NonUriVerbatim ==
    [][/\ \A stream_id \in StreamIds :
              (serve_bingeflix_m3u8("GET", stream_id, 1) /\ returned'.response.status = 200) =>
                  NonUriVerbatim(bingeflix_m3u8_cache[stream_id].content,
                                 returned'.response.body)
       /\ \A c \in Suspended("proxy_get"), resp \in RelayUpstreams :
              (RewrittenAsManifest(c.request.url[1], resp) /\ ProxyReturn(c, resp)) =>
                  NonUriVerbatim(resp.body, returned'.response.body)
      ]_vars

\* an absolute URI: it starts with a scheme, some characters other than
\* '/', '?' and '#' followed by ':'
IsAbsolute(uri) ==
    \E n \in 2..Len(uri) :
        /\ uri[n] = ":"
        /\ \A i \in 1..(n - 1) : uri[i] \notin {":", "/", "?", "#"}

\* every URI line of input is replaced in output by a relay URL whose url
\* argument is the line when it is absolute and base_url followed by the line
\* when it is relative, and whose referer argument is referer
TargetsResolved(input, output, base_url, referer) ==
    /\ Len(Lines(output)) = Len(Lines(input))
    /\ \A i \in 1..Len(Lines(input)) :
           UriLine(Lines(input)[i]) =>
               LET uri == Strip(Lines(input)[i])
               IN  /\ QueryArg(Lines(output)[i], <<"u", "r", "l">>)
                          = Some(IF IsAbsolute(uri) THEN uri ELSE base_url \o uri)
                   /\ QueryArg(Lines(output)[i], <<"r", "e", "f", "e", "r", "e", "r">>)
                          = Some(referer)

\* C15: for every URI line of a manifest, the target in the relay URL that
\* replaces it is the line itself when the line is an absolute URI and
\* base_url followed by the line when it is relative, and the referer in it
\* is the referer of the entry or of the request.
C15_TargetsResolved ==
    [][/\ \A stream_id \in StreamIds :
              (serve_bingeflix_m3u8("GET", stream_id, 1) /\ returned'.response.status = 200) =>
                  TargetsResolved(bingeflix_m3u8_cache[stream_id].content,
                                  returned'.response.body,
                                  bingeflix_m3u8_cache[stream_id].base_url,
                                  bingeflix_m3u8_cache[stream_id].referer)
       /\ \A c \in Suspended("proxy_get"), resp \in RelayUpstreams :
              (/\ c.request.referer # None
               /\ RewrittenAsManifest(c.request.url[1], resp)
               /\ ProxyReturn(c, resp)) =>
                  TargetsResolved(resp.body, returned'.response.body,
                                  BaseUrl(c.request.url[1]), c.request.referer[1])
      ]_vars

\* serve_bingeflix_m3u8 answered a GET
ServedGet == returned.call = "serve_bingeflix_m3u8" /\ returned.method = "GET"

\* C16: a GET of the cache-backed manifest route for an id without Manifest
\* Cache entry, or whose entry is older than the TTL, is answered 404, also
\* while the expired entry is still in the map; for an entry not older than
\* the TTL it is answered 200 with the rewritten body.
C16_ExpiredIsNotFound ==
    ServedGet =>
        LET id == returned.stream_id
            response == returned.response
        IN
        IF id \notin DOMAIN bingeflix_m3u8_cache
               \/ now - bingeflix_m3u8_cache[id].timestamp > BINGEFLIX_CACHE_TTL
        THEN /\ response.status = 404
             /\ response.content_type = JsonType
             /\ ~IsRelayUrl(response.body)
        ELSE /\ response.status = 200
             /\ response.content_type = MpegUrlType
             /\ SameStructure(bingeflix_m3u8_cache[id].content, response.body)

\* a GET was answered 404 for an id whose expired entry is still in the map
C16_Witness ==
    /\ ServedGet
    /\ returned.stream_id \in DOMAIN bingeflix_m3u8_cache
    /\ now - bingeflix_m3u8_cache[returned.stream_id].timestamp > BINGEFLIX_CACHE_TTL
    /\ returned.response.status = 404

\* s ends with suffix
EndsWith(s, suffix) ==
    Len(s) >= Len(suffix) /\ SubSeq(s, Len(s) - Len(suffix) + 1, Len(s)) = suffix

\* the upstream answer is a manifest: the path of the URL fetched ends with
\* .m3u8 or the Content-Type is one of the two HLS manifest types
IsManifestAnswer(url, resp) ==
    \/ EndsWith(PathOf(url), M3u8Suffix)
    \/ resp.content_type # None /\ Contains(resp.content_type[1], MpegUrlType)
    \/ resp.content_type # None /\ Contains(resp.content_type[1], XMpegUrlType)

\* the response hands on the upstream answer: its status, its body and the
\* three headers, each when upstream sent it
StreamedThrough(response, resp) ==
    /\ response.status = resp.status_code
    /\ response.body = resp.body
    /\ response.content_length = resp.content_length
    /\ response.accept_ranges = resp.accept_ranges
    /\ response.content_range = resp.content_range

\* C17: the upstream fetch of proxy_hls carries the Range header of the
\* request unchanged, and none when the request has none; the answer to a
\* fetch of a URL that is no manifest has the upstream status (206 for a
\* range) and the upstream Content-Range, Content-Length and Accept-Ranges.
C17_RangeForwarded ==
    [][/\ \A q \in RelayRequests :
              (q.method = "GET" /\ q.url # None /\ ProxyStart(q, 1)) =>
                  \E c \in BagToSet(calls') :
                      c.at = "proxy_get" /\ c.request = q /\ c.upstream.Range = q.range
       /\ \A c \in Suspended("proxy_get"), resp \in RelayUpstreams :
              (/\ resp.raised = "none"
               /\ ~IsManifestAnswer(c.request.url[1], resp)
               /\ ProxyReturn(c, resp)) =>
                  /\ returned'.upstream.Range = c.request.range
                  /\ StreamedThrough(returned'.response, resp)
      ]_vars

\* C18: proxy_hls rewrites the upstream answer exactly when the URL ends
\* with .m3u8 or the Content-Type is an HLS manifest type; every other answer,
\* also that of a segment whose URL holds .m3u8 in a directory name or in
\* the query, is streamed through with its body as it is.
C18_ManifestDetection ==
    [][\A c \in Suspended("proxy_get"), resp \in RelayUpstreams :
           (resp.raised = "none" /\ ProxyReturn(c, resp)) =>
               IF IsManifestAnswer(c.request.url[1], resp)
               THEN /\ returned'.response.content_type = MpegUrlType
                    /\ SameStructure(resp.body, returned'.response.body)
               ELSE StreamedThrough(returned'.response, resp)
      ]_vars

\* the response is an error of the relay: a JSON error with an error status,
\* no manifest and no upstream body
IsProxyError(response) ==
    /\ response.status >= 400
    /\ response.content_type = JsonType
    /\ response.body = UpstreamErrorMessage
    /\ response.content_length = None
    /\ response.accept_ranges = None
    /\ response.content_range = None

\* C19 as stated: when the upstream fetch of proxy_hls fails, the client gets
\* a proxy error, and when upstream answered with a non-success status S the
\* status of that error is S.
C19_StatusPreserved ==
    [][\A c \in Suspended("proxy_get"), resp \in RelayUpstreams :
           (resp.raised # "none" /\ ProxyReturn(c, resp)) =>
               /\ IsProxyError(returned'.response)
               /\ resp.raised = "HTTPError" =>
                      returned'.response.status = resp.status_code
      ]_vars

\* C19, amended: when the upstream fetch of proxy_hls fails (a non-success
\* status S, a connection failure, a timeout, any other request error), the
\* client gets a proxy error, never a success and never a rewritten body, and
\* its status is 502 whatever S is.
C19_BadGateway ==
    [][\A c \in Suspended("proxy_get"), resp \in RelayUpstreams :
           (/\ resp.raised \in {"HTTPError", "ConnectionError", "Timeout", "RequestException"}
            /\ ProxyReturn(c, resp)) =>
               /\ IsProxyError(returned'.response)
               /\ returned'.response.status = 502
      ]_vars

\* proxy_hls has answered 502 to a fetch that failed
C19_Witness ==
    /\ returned # NoReturn
    /\ returned.call = "proxy_hls"
    /\ "upstream" \in DOMAIN returned
    /\ IsProxyError(returned.response)
    /\ returned.response.status = 502

\* the manifest of id was served from the entries tier 1 wrote for it: the
\* Result Cache holds the cache-backed manifest URL of id, and the Manifest
\* Cache entry of id is not older than the TTL
ServedCaptured ==
    /\ ServedGet
    /\ returned.stream_id \in DOMAIN bingeflix_cache
    /\ returned.stream_id \in DOMAIN bingeflix_m3u8_cache
    /\ bingeflix_cache[returned.stream_id].data.url = HlsBingeflixRoute \o returned.stream_id
    /\ now - bingeflix_m3u8_cache[returned.stream_id].timestamp <= BINGEFLIX_CACHE_TTL

\* C20: a resolve that tier 1 answers with a manifest URL U, a body B and a
\* referer R returns a result of type 'direct'; a GET of that result's url
\* within the TTL is answered with B in which each relative URI line L is the
\* relay URL whose url argument is the directory of U followed by L, percent
\* encoded with '/' as %2F, and whose referer argument is R.
C20_EndToEnd ==
    /\ Tier1Captured =>
           /\ returned.result.type = "direct"
           /\ cache_key(returned.request) \in DOMAIN bingeflix_m3u8_cache
    /\ ServedCaptured =>
           LET U == bingeflix_cache[returned.stream_id].data.original_url
               R == bingeflix_cache[returned.stream_id].data.referer
               B == Lines(bingeflix_m3u8_cache[returned.stream_id].content)
               out == Lines(returned.response.body)
           IN  /\ returned.response.status = 200
               /\ Len(out) = Len(B)
               /\ \A i \in 1..Len(B) :
                      (UriLine(B[i]) /\ ~IsAbsolute(Strip(B[i]))) =>
                          /\ out[i] = Concat(<<HlsProxyRoute, quote(DirOf(U) \o Strip(B[i]), {}),
                                               RefererParam, quote(R, {})>>)

(***************************************************************************)
(* The caches' frame and the stream endpoints.                             *)
(***************************************************************************)
\* the Manifest Cache has no entry of key k, or one older than the TTL
ManifestGone(k) ==
    \/ k \notin DOMAIN bingeflix_m3u8_cache
    \/ now - bingeflix_m3u8_cache[k].timestamp > BINGEFLIX_CACHE_TTL

\* C21: a resolution is answered from the Result Cache, with no tier started,
\* exactly when the Result Cache entry of its key is within the TTL, whatever
\* the Manifest Cache holds for the key; and a GET of the manifest route is
\* answered 404 exactly when the Manifest Cache entry of the id is absent or
\* older than the TTL, whatever the Result Cache holds.
C21_IndependentExpiry ==
    [][/\ \A r \in Requests :
              ResolveStart(r, 1) =>
                  IF WithinTTL(cache_key(r))
                  THEN /\ returned' # NoReturn
                       /\ returned'.tiers = <<>>
                       /\ returned'.result = bingeflix_cache[cache_key(r)].data
                       /\ calls' = calls
                  ELSE returned' = NoReturn /\ calls' # calls
       /\ \A stream_id \in StreamIds :
              serve_bingeflix_m3u8("GET", stream_id, 1) =>
                  (returned'.response.status = 404 <=> ManifestGone(stream_id))
      ]_vars

\* a resolution was answered from the Result Cache while the Manifest Cache
\* entry of its key was older than the TTL
C21_Witness ==
    /\ ResolveReturned
    /\ returned.tiers = <<>>
    /\ cache_key(returned.request) \in DOMAIN bingeflix_m3u8_cache
    /\ ManifestGone(cache_key(returned.request))

\* a stream endpoint answered: after extract_vidsrc_stream returned to it, or
\* at once when the catalog lookup failed
StreamReturned == returned.call \in {"extract_vidsrc_stream", "generate_stream_url"}

\* the response is a success that carries a stream URL
HasStreamUrl(response) ==
    /\ response.status = 200
    /\ "stream_url" \in DOMAIN response.json
    /\ response.json.stream_url # <<>>

\* C22 as stated: every answer of a stream endpoint is a success with a
\* stream_url, whatever the catalog and the tiers did.
C22_NeverAnError == StreamReturned => HasStreamUrl(returned.response)

\* the release date of the catalog's details is there and is no text
DateRaises(movie) == movie.date # None /\ movie.date # Some(<<>>) /\ ~movie.date_is_text

\* C22, amended: a stream endpoint answers 404 when the catalog lookup fails
\* and 500 when building the answer from the catalog's details raises; in
\* every other case, whatever the tiers did, it answers 200 with the stream
\* URL and type of the resolution, the embed URL when no tier succeeded.
C22_ErrorOnlyFromCatalog ==
    StreamReturned =>
        IF returned.movie.error
        THEN returned.response.status = 404 /\ returned.call = "generate_stream_url"
        ELSE IF DateRaises(returned.movie)
        THEN returned.response.status = 500
        ELSE /\ HasStreamUrl(returned.response)
             /\ returned.response.json.stream_url = returned.result.url
             /\ returned.response.json.stream_type = returned.result.type
             /\ returned.response.json.stream_type \in {"direct", "embed"}
             /\ (returned.tiers # <<>> /\ NoTierSucceeded(returned.tiers)) =>
                    /\ returned.response.json.stream_type = "embed"
                    /\ returned.response.json.stream_url = CanonicalEmbedUrl(returned.request)

\* a stream endpoint answered 200 with the embed URL after every tier failed
C22_Witness ==
    /\ ResolveReturned
    /\ Len(returned.tiers) = 3
    /\ NoTierSucceeded(returned.tiers)
    /\ HasStreamUrl(returned.response)
    /\ returned.response.json.stream_type = "embed"

\* the entry is one a tier-1 success writes: a direct result with a URL
IsSuccessEntry(entry) ==
    /\ entry.data.type = "direct"
    /\ entry.data.source = "bingeflix"
    /\ entry.data.url # <<>>
    /\ entry.data.original_url # <<>>

\* C23: a tier-1 attempt that is skipped because the gate is busy, or whose
\* worker fails or gives no usable URL, leaves both caches as they were; the
\* Result Cache holds entries of successes only; after a failed attempt the
\* key is still a miss and the gate is free; and a resolution that starts at
\* a miss with the gate free launches the worker.
C23_NoNegativeEntry ==
    [][/\ \A k \in DOMAIN bingeflix_cache' : IsSuccessEntry(bingeflix_cache'[k])
       /\ \A c \in Suspended("tpool"), result \in WorkerResults, t2 \in CoarseClock :
              (~WorkerSucceeded(result) /\ WorkerReturn(c, result, t2)) =>
                  /\ bingeflix_cache' = bingeflix_cache
                  /\ bingeflix_m3u8_cache' = bingeflix_m3u8_cache
                  /\ ~(WithinTTL(cache_key(c.request)))'
                  /\ bingeflix_lock' > 0
       /\ \A r \in Requests :
              (~WithinTTL(cache_key(r)) /\ ResolveStart(r, MaxCalls)) =>
                  /\ bingeflix_cache' = bingeflix_cache
                  /\ bingeflix_m3u8_cache' = bingeflix_m3u8_cache
                  /\ IF bingeflix_lock > 0
                     THEN /\ bingeflix_lock' = bingeflix_lock - 1
                          /\ calls' = calls (+) SetToBag({Call("tpool", r, <<Tier(1, "running")>>)})
                     ELSE /\ bingeflix_lock' = bingeflix_lock
                          /\ calls' = calls (+) SetToBag({Call("scraper_get", r,
                                          <<Tier(1, "busy"), Tier(2, "running")>>)})
      ]_vars

\* the worker runs again for a key whose earlier attempt failed and is now
\* in a later tier
C23_Witness ==
    \E c \in Suspended("tpool"), d \in BagToSet(calls) :
        /\ d.request = c.request
        /\ d.at # "tpool"
        /\ d.tiers[1].outcome = "fail"
        /\ cache_key(c.request) \notin DOMAIN bingeflix_cache

\* the hls_url of the service's answer for the i-th domain is there and not
\* empty
UsableAt(resp, i) == resp.results[i].hls_url # None /\ resp.results[i].hls_url # Some(<<>>)

\* the service answered, with success, and some domain has a usable hls_url
ServiceGave(resp) ==
    /\ resp.raised = "none"
    /\ resp.success
    /\ \E i \in 1..Len(resp.results) : UsableAt(resp, i)

\* C24: when the service answers with success and some domain has a usable
\* hls_url, tier 2 returns the result of the first such domain in the order
\* of the results map, with that domain as source; when the call raises
\* (connection error, timeout, HTTP error), success is false, results is
\* empty or no domain has a usable hls_url, tier 2 fails and the resolution
\* goes on to tier 3.
C24_FirstUsableDomain ==
    [][\A c \in Suspended("scraper_get"), resp \in ScraperResponses :
           ScraperReturn(c, resp) =>
               IF ServiceGave(resp)
               THEN /\ returned' # NoReturn
                    /\ LastTier(returned'.tiers) = Tier(2, "ok")
                    /\ \E i \in 1..Len(resp.results) :
                           /\ UsableAt(resp, i)
                           /\ \A j \in 1..(i - 1) : ~UsableAt(resp, j)
                           /\ returned'.result.source = resp.results[i].domain
                           /\ returned'.result.original_url = resp.results[i].hls_url[1]
                           /\ returned'.result.type = "direct"
               ELSE /\ returned' = NoReturn
                    /\ \E d \in BagToSet(calls') :
                           /\ d.request = c.request
                           /\ d.at = "embed_get"
                           /\ d.tiers[Len(d.tiers) - 1] = Tier(2, "fail")
      ]_vars

\* tier 2 returned the result of the second domain, the first having no
\* usable hls_url
C24_Witness ==
    /\ ResolveReturned
    /\ returned.tiers # <<>>
    /\ LastTier(returned.tiers) = Tier(2, "ok")
    /\ returned.result.source = "vidsrc.cc"
    /\ returned.result.original_url = UrlQuery

\* C25: every successful response of the stream endpoints has the fields
\* stream_url, stream_type, subtitles and source; stream_type is direct or
\* embed, and source is the source of the result it was built from, the tier
\* or domain that gave it.
C25_ResponseFields ==
    (StreamReturned /\ returned.response.status = 200) =>
        /\ {"stream_url", "stream_type", "subtitles", "source"} \subseteq DOMAIN returned.response.json
        /\ returned.response.json.stream_type \in {"direct", "embed"}
        /\ returned.response.json.source = returned.result.source

\* the rule of the URI lines applied to the line as it stands: it is not
\* empty and its first character is not '#'
UriLineAsGiven(line) == line # <<>> /\ Head(line) # "#"

\* output has a relay URL exactly at the lines of input that rule takes for
\* URI lines
ClassifiedBy(rule(_), input, output) ==
    /\ Len(Lines(output)) = Len(Lines(input))
    /\ \A i \in 1..Len(Lines(input)) :
           IsRelayUrl(Lines(output)[i]) <=> rule(Lines(input)[i])

\* C26 as stated: both rewriters replace a line by a relay URL exactly when
\* the line as given is non-empty and does not start with '#', so that a
\* line of whitespace and a line with whitespace before '#' are replaced.
C26_ClassifiedAsGiven ==
    [][/\ \A stream_id \in StreamIds :
              (serve_bingeflix_m3u8("GET", stream_id, 1) /\ returned'.response.status = 200) =>
                  ClassifiedBy(UriLineAsGiven, bingeflix_m3u8_cache[stream_id].content,
                               returned'.response.body)
       /\ \A c \in Suspended("proxy_get"), resp \in RelayUpstreams :
              (RewrittenAsManifest(c.request.url[1], resp) /\ ProxyReturn(c, resp)) =>
                  ClassifiedBy(UriLineAsGiven, resp.body, returned'.response.body)
      ]_vars

\* a line of whitespace only, or whose first character after the whitespace
\* is '#'
BlankOrIndentedComment(line) ==
    /\ line # <<>>
    /\ Head(line) \in Whitespace
    /\ Strip(line) = <<>> \/ Head(Strip(line)) = "#"

\* C26, amended: both rewriters replace a line by a relay URL exactly when
\* the line without the whitespace around it is non-empty and does not start
\* with '#'; a line of whitespace only and a line with whitespace before '#'
\* are no URI lines and are not replaced.
C26_ClassifiedTrimmed ==
    [][/\ \A stream_id \in StreamIds :
              (serve_bingeflix_m3u8("GET", stream_id, 1) /\ returned'.response.status = 200) =>
                  LET input == bingeflix_m3u8_cache[stream_id].content
                      output == returned'.response.body
                  IN  /\ ClassifiedBy(UriLine, input, output)
                      /\ \A i \in 1..Len(Lines(input)) :
                             BlankOrIndentedComment(Lines(input)[i]) =>
                                 Lines(output)[i] = Lines(input)[i]
       /\ \A c \in Suspended("proxy_get"), resp \in RelayUpstreams :
              (RewrittenAsManifest(c.request.url[1], resp) /\ ProxyReturn(c, resp)) =>
                  /\ ClassifiedBy(UriLine, resp.body, returned'.response.body)
                  /\ \A i \in 1..Len(Lines(resp.body)) :
                         BlankOrIndentedComment(Lines(resp.body)[i]) =>
                             ~IsRelayUrl(Lines(returned'.response.body)[i])
      ]_vars

\* the cache-backed route served the manifest with the line of whitespace and
\* the comment after a space
C26_Witness ==
    /\ ServedGet
    /\ returned.response.status = 200
    /\ returned.response.content_type = MpegUrlType
    /\ bingeflix_m3u8_cache[returned.stream_id].content = BodyIndented

(***************************************************************************)
(* The worker's timeout and termination.                                   *)
(***************************************************************************)
\* the worker call ran into its timeout
TimedOut(result) == result.raised = "TimeoutExpired"

\* C28: when the worker call runs into its timeout, the step that releases
\* the gate leaves no worker process alive; the gate is free only while no
\* worker process is alive; and a resolution that acquires the gate and
\* launches a worker finds none alive, so there is never more than one.
C28_WorkerReaped ==
    [][/\ \A c \in Suspended("tpool"), result \in GateWorkerResults, t2 \in CoarseClock :
              (TimedOut(result) /\ WorkerReturn(c, result, t2)) =>
                  /\ bingeflix_lock' = bingeflix_lock + 1
                  /\ running_workers' = 0
       /\ bingeflix_lock' > 0 => running_workers' = 0
       /\ \A r \in RelayStreams :
              (bingeflix_lock > 0 /\ ResolveStart(r, MaxCalls) /\ bingeflix_lock' < bingeflix_lock) =>
                  /\ running_workers = 0
                  /\ running_workers' = 1
      ]_vars

\* a worker runs for a resolution that acquired the gate after the worker of
\* another one, now in a later tier, was timed out
C28_Witness ==
    /\ running_workers = 1
    /\ \E c \in Suspended("tpool"), d \in BagToSet(calls) :
           /\ d.at \in {"scraper_get", "embed_get", "iframe_get"}
           /\ d.tiers[1] = Tier(1, "fail")

\* the log of a resolution that returned goes on from the log of the call c
GoesOnFrom(c, log) ==
    /\ Len(log) >= Len(c.tiers)
    /\ \A i \in 1..(Len(c.tiers) - 1) : log[i] = c.tiers[i]
    /\ log[Len(c.tiers)].tier = c.tiers[Len(c.tiers)].tier

\* C27: under fairness every resolution in service, in whatever tier it is
\* suspended, leads to the return of a result for its request; a gate that is
\* held is released; and whenever no return is being delivered, every
\* suspended resolution can go on by itself, whatever the others do, so that
\* none waits for another and no state is a deadlock.
C27_Terminates ==
    /\ \A c \in SuspendedResolutions :
           (c \in BagToSet(calls)) ~>
               (/\ ResolveReturned
                /\ returned.request = c.request
                /\ GoesOnFrom(c, returned.tiers)
                /\ returned.result.url # <<>>)
    /\ (bingeflix_lock = 0) ~> (bingeflix_lock = 1)
    /\ [](returned = NoReturn =>
             \A c \in BagToSet(calls) : c.at # "proxy_get" => ENABLED ReturnOf(c))

\* a resolution that found the gate held by another one returned a result
C27_Witness ==
    /\ ResolveReturned
    /\ returned.tiers # <<>>
    /\ returned.tiers[1] = Tier(1, "busy")
    /\ bingeflix_lock = 0
    /\ returned.result.url # <<>>

(***************************************************************************)
(* The extraction worker: bingeflix_scraper.py.  One process of it is      *)
(* followed from its start to its exit: scraper holds where it is, its     *)
(* argv, the lists its two response listeners fill, the lines it wrote to   *)
(* stdout and to stderr, and its exit code.                                 *)
(***************************************************************************)
\* the most responses with a manifest URL the page makes in a run
MaxResponses == 3

\* the variables of the server, which the worker process does not touch
server == <<bingeflix_cache, bingeflix_m3u8_cache, bingeflix_lock, now, calls,
            running_workers, returned>>

\* sys.argv: the script, then too few arguments, a movie, an episode, a show
\* without an episode, and a content type that is neither movie nor tv
ScraperArgvs ==
    {<<<<"b">>>> \o args :
        args \in {<<>>, <<Str(7)>>, <<Str(7), MOVIE>>, <<Str(7), TV, Str(1), Str(2)>>,
                  <<Str(7), TV>>, <<Str(7), <<"f", "i", "l", "m">>>>}}

\* a line of text, and a line that is json.dumps of an object
Text(msg) == [text |-> msg]
Json(obj) == [json |-> obj]

\* log(msg) written to stdout instead of stderr
log_to_stdout(p, msg) == [p EXCEPT !.stdout = Append(@, Text(msg))]

\* log(msg): print(..., file=sys.stderr)
log(p, msg) == [p EXCEPT !.stderr = Append(@, Text(msg))]

\* print(json.dumps(obj))
print_json(p, obj) == [p EXCEPT !.stdout = Append(@, Json(obj))]

\* the process ends with exit code code
Exit(p, code) == [p EXCEPT !.pc = "exited", !.exit = Some(code)]

\* {'success': False, 'error': error}
Failure(error) == [success |-> FALSE, error |-> error]

\* the process main starts in
Started(argv) ==
    [pc |-> "main", argv |-> argv, m3u8_responses |-> <<>>, subtitles |-> <<>>,
     stdout |-> <<>>, stderr |-> <<>>, exit |-> None]

BingeflixHome == <<"h", "t", "t", "p", "s", ":", "/", "/", "b", "i", "n", "g", "e", "f", "l", "i", "x", ".", "t", "v", "/">>

\* the page scrape opens, None for an invalid content type
TargetUrl(tmdb_id, content_type, season, episode) ==
    IF content_type = MOVIE
    THEN Some(Concat(<<BingeflixHome, MOVIE, <<"/">>, tmdb_id>>))
    ELSE IF content_type = TV /\ Truthy(season) /\ Truthy(episode)
    THEN Some(Concat(<<BingeflixHome, TV, <<"/">>, tmdb_id, <<"/">>, season[1],
                       <<"/">>, episode[1]>>))
    ELSE IF content_type = TV
    THEN Some(Concat(<<BingeflixHome, TV, <<"/">>, tmdb_id>>))
    ELSE None

\* a response the page receives: text is None when response.text() raises;
\* headers is "raises" when walking the redirect chain raises, else the
\* referer header of the first request of the chain (None when it has none)
PageResponse(url, status, text, headers) ==
    [url |-> url, status |-> status, text |-> text, headers |-> headers]

DotM3u8 == <<".", "m", "3", "u", "8">>
ExtM3u == <<"#", "E", "X", "T", "M", "3", "U">>
\* what the page may receive: a manifest with its body, a redirect to one, a
\* 2xx answer that is no manifest, one whose body cannot be read, an error
\* without body, and a segment; no subtitle file, so that the subtitle
\* listener collects nothing
PageResponses ==
    {PageResponse(UrlPlain, 200, Some(BodyM), Some(RefX)),
     PageResponse(UrlPlain, 302, Some(BodyM), None),
     PageResponse(UrlQuery, 200, Some(<<"<", "p", ">">>), Some(<<>>)),
     PageResponse(UrlQuery, 206, None, "raises"),
     PageResponse(UrlQuery, 404, Some(<<>>), Some(RefX)),
     PageResponse(<<"h", "t", "t", "p", "s", ":", "/", "/", "x", ".", "i", "o", "/", "s", ".", "t", "s">>,
                  200, Some(<<"<", "p", ">">>), Some(RefX))}

\* handle_response: the listener that collects the manifest responses
handle_response(p, response) ==
    IF ~Contains(response.url, DotM3u8)
    THEN p
    ELSE LET p1 == log(p, "M3U8 response")
             reads == response.status >= 200 /\ response.status < 300
             valid == /\ reads
                      /\ Truthy(response.text)
                      /\ Contains(response.text[1], ExtM3u)
             p2 == IF ~reads THEN p1
                   ELSE IF response.text = None THEN log(p1, "Could not read body")
                   ELSE IF valid THEN log(p1, "Captured valid m3u8 content")
                   ELSE log(p1, "Response body is not a valid m3u8")
             entry == [url |-> response.url,
                       content |-> IF valid THEN response.text ELSE None,
                       referer |-> IF response.headers = "raises" THEN None
                                   ELSE Some(GetOr(response.headers, <<>>)),
                       status |-> response.status]
         IN  [p2 EXCEPT !.m3u8_responses = Append(@, entry)]

\* the response scrape reports: the first with a captured body, else the
\* first with a 2xx status, else the first
PickBest(m3u8_responses) ==
    LET withContent == {i \in 1..Len(m3u8_responses) : Truthy(m3u8_responses[i].content)}
        ok == {i \in 1..Len(m3u8_responses) :
                  m3u8_responses[i].status >= 200 /\ m3u8_responses[i].status < 300}
    IN  IF withContent # {} THEN m3u8_responses[Min(withContent)]
        ELSE IF ok # {} THEN m3u8_responses[Min(ok)]
        ELSE m3u8_responses[1]

\* what scrape returns once the browser is closed
ScrapeResult(m3u8_responses, subtitles) ==
    IF m3u8_responses = <<>>
    THEN Failure("No m3u8 URL intercepted within timeout")
    ELSE LET best == PickBest(m3u8_responses)
             result == [success |-> TRUE,
                        hls_url |-> best.url,
                        subtitles |-> subtitles,
                        referer |-> IF Truthy(best.referer) THEN best.referer[1]
                                    ELSE BingeflixHome]
         IN  IF Truthy(best.content)
             THEN result @@ [hls_content |-> best.content[1]]
             ELSE result

\* main is entered: the usage error, or the line that announces the scrape
main(argv) ==
    /\ scraper = NotStarted
    /\ scraper' =
           IF Len(argv) < 3
           THEN Exit(print_json(Started(argv), Failure("Usage")), 1)
           ELSE [log(Started(argv), "Starting scrape") EXCEPT !.pc = "scrape"]
    /\ UNCHANGED <<server, party, friendships>>

\* scrape is entered and playwright imported: an invalid content type returns
\* at once, and main prints what scrape returned; else the browser is started
\* and the listeners are registered
scrape_enter ==
    /\ scraper.pc = "scrape"
    /\ LET argv == scraper.argv
           season == IF Len(argv) > 3 THEN Some(argv[4]) ELSE None
           episode == IF Len(argv) > 4 THEN Some(argv[5]) ELSE None
           target_url == TargetUrl(argv[2], argv[3], season, episode)
       IN  scraper' =
               IF target_url = None
               THEN Exit(print_json(scraper, Failure("Invalid content type")), 0)
               ELSE [log(scraper, "Target URL") EXCEPT !.pc = "page"]
    /\ UNCHANGED <<server, party, friendships>>

\* the page receives a response and the listeners run
page_response(response) ==
    /\ scraper.pc = "page"
    /\ Len(scraper.m3u8_responses) < MaxResponses
    /\ scraper' = handle_response(scraper, response)
    /\ UNCHANGED <<server, party, friendships>>

\* scrape raises (the import, the browser start, browser.close()): main logs
\* the error and prints a failure
scrape_raise(e) ==
    /\ scraper.pc \in {"scrape", "page"}
    /\ scraper' = Exit(print_json(log(scraper, "Fatal error"), Failure(e)), 0)
    /\ UNCHANGED <<server, party, friendships>>

\* the navigation ends, with an error that is logged or without; scrape
\* closes the browser and returns, and main prints what it returned
scrape_return(nav_error) ==
    /\ scraper.pc = "page"
    /\ LET p1 == IF nav_error THEN log(scraper, "Navigation error") ELSE scraper
           RECURSIVE LogEach(_, _)
           LogEach(q, i) == IF i > Len(scraper.m3u8_responses) THEN q
                            ELSE LogEach(log(q, "response"), i + 1)
           p2 == LogEach(log(p1, "Total m3u8 responses collected"), 1)
       IN  scraper' = Exit(print_json(p2, ScrapeResult(scraper.m3u8_responses,
                                                        scraper.subtitles)), 0)
    /\ UNCHANGED <<server, party, friendships>>

NextWorker ==
    \/ \E argv \in ScraperArgvs : main(argv)
    \/ scrape_enter
    \/ \E response \in PageResponses : page_response(response)
    \/ \E e \in {"ImportError", "Error"} : scrape_raise(e)
    \/ \E nav_error \in BOOLEAN : scrape_return(nav_error)

SpecWorker == Init /\ [][NextWorker]_vars

\* C29: on every path of the worker's main exactly one JSON object is written
\* to stdout (never more than one line, a JSON object, and exactly one once
\* the process has exited) and every diagnostic line is on stderr; the object
\* says success=true only with a non-empty hls_url, and it has hls_content
\* only as the captured body of a collected response with the reported URL
C29_OneJsonObject ==
    scraper # NotStarted =>
        /\ Len(scraper.stdout) <= 1
        /\ scraper.pc = "exited" => Len(scraper.stdout) = 1
        /\ \A i \in 1..Len(scraper.stderr) : DOMAIN scraper.stderr[i] = {"text"}
        /\ \A i \in 1..Len(scraper.stdout) :
               /\ DOMAIN scraper.stdout[i] = {"json"}
               /\ LET obj == scraper.stdout[i].json
                  IN  /\ obj.success => "hls_url" \in DOMAIN obj /\ obj.hls_url # <<>>
                      /\ "hls_content" \in DOMAIN obj =>
                             /\ obj.success
                             /\ \E j \in 1..Len(scraper.m3u8_responses) :
                                    /\ scraper.m3u8_responses[j].url = obj.hls_url
                                    /\ scraper.m3u8_responses[j].content = Some(obj.hls_content)

\* the worker exited after a scrape that collected a response without a body
\* and then one with a body, which it reported, with diagnostics on stderr
C29_Witness ==
    /\ scraper # NotStarted
    /\ scraper.pc = "exited"
    /\ Len(scraper.m3u8_responses) >= 2
    /\ scraper.m3u8_responses[1].content = None
    /\ Len(scraper.stdout) = 1
    /\ scraper.stdout[1].json.success
    /\ "hls_content" \in DOMAIN scraper.stdout[1].json
    /\ scraper.stderr # <<>>

\* the step returns from a resolution whose tier 1 succeeded
TierOneSucceeds ==
    /\ returned = NoReturn
    /\ returned'.call = "extract_vidsrc_stream"
    /\ returned'.tiers = <<Tier(1, "ok")>>

\* C30: a Manifest Cache entry is read-only after creation: a step that is
\* not the return of a successful tier 1 (so every step of
\* serve_bingeflix_m3u8 and of proxy_hls, and every Result Cache hit) leaves
\* both caches as they are, and an entry of the Manifest Cache stays in it
\* and changes only in the return of a successful tier 1 for its key, which
\* puts in its place an entry whose referer, base_url and timestamp are all
\* those of that resolution, together with the URL that serves its body
C30_EntriesReadOnly ==
    [][/\ ~TierOneSucceeds => UNCHANGED <<bingeflix_cache, bingeflix_m3u8_cache>>
       /\ \A k \in DOMAIN bingeflix_m3u8_cache :
              /\ k \in DOMAIN bingeflix_m3u8_cache'
              /\ bingeflix_m3u8_cache'[k] # bingeflix_m3u8_cache[k] =>
                     /\ TierOneSucceeds
                     /\ cache_key(returned'.request) = k
                     /\ returned'.result.url = CachedManifestUrl(k)
                     /\ bingeflix_m3u8_cache'[k].referer = returned'.result.referer
                     /\ bingeflix_m3u8_cache'[k].base_url =
                            BaseUrl(returned'.result.original_url)
                     /\ bingeflix_m3u8_cache'[k].timestamp = now]_vars

\* a successful tier 1 returned after the time to live had passed, and the
\* Manifest Cache entry of its key is the one it wrote
C30_Witness ==
    /\ ResolveReturned
    /\ returned.tiers = <<Tier(1, "ok")>>
    /\ now > BINGEFLIX_CACHE_TTL
    /\ cache_key(returned.request) \in DOMAIN bingeflix_m3u8_cache
    /\ bingeflix_m3u8_cache[cache_key(returned.request)].timestamp > BINGEFLIX_CACHE_TTL
    /\ bingeflix_m3u8_cache[cache_key(returned.request)].base_url =
           BaseUrl(returned.result.original_url)

(***************************************************************************)
(* The caches and the gate, once more.                                     *)
(***************************************************************************)
\* C31: a resolution whose key has a Result Cache entry within the TTL
\* returns that entry's data in the step it starts, and the step leaves the
\* semaphore and the workers as they are; and such a resolution can start
\* whatever the semaphore's counter is, also while another one holds it
C31_HitIgnoresGate ==
    /\ [][\A r \in Requests :
              (WithinTTL(cache_key(r)) /\ ResolveStart(r, MaxCalls)) =>
                  /\ returned'.call = "extract_vidsrc_stream"
                  /\ returned'.tiers = <<>>
                  /\ returned'.result = bingeflix_cache[cache_key(r)].data
                  /\ bingeflix_lock' = bingeflix_lock
                  /\ running_workers' = running_workers
                  /\ calls' = calls]_vars
    /\ [](\A r \in Requests :
              (/\ WithinTTL(cache_key(r))
               /\ returned = NoReturn
               /\ BagCardinality(calls) < MaxCalls) =>
                  ENABLED (ResolveStart(r, MaxCalls) /\ returned'.call = "extract_vidsrc_stream"))

\* a resolution was served from the Result Cache while the worker of another
\* resolution, of another key, holds the semaphore
C31_Witness ==
    /\ ResolveReturned
    /\ returned.tiers = <<>>
    /\ bingeflix_lock = 0
    /\ \E c \in Suspended("tpool") :
           /\ CopiesIn(c, calls) = 1
           /\ cache_key(c.request) # cache_key(returned.request)

\* C32: whenever a resolution is served from the Result Cache a url that is
\* the cache-backed manifest URL of its key, the Manifest Cache holds an
\* entry of that key that is not older than the TTL at that moment, so that
\* a GET of the url is not answered 404
C32_HitManifestFresh ==
    (/\ ResolveReturned
     /\ returned.tiers = <<>>
     /\ returned.result.url = CachedManifestUrl(cache_key(returned.request))) =>
        /\ ~ManifestGone(cache_key(returned.request))
        /\ ServeResponse("GET", cache_key(returned.request)).status # 404

\* requests that differ in one field or in how the digits are split between
\* neighbouring fields: one- and two-digit ids, seasons and episodes, given or not
KeyRequests ==
    [tmdb_id : {1, 7, 71, 17}, content_type : {MOVIE, TV},
     season : {None, Some(1), Some(2), Some(12)},
     episode : {None, Some(1), Some(2), Some(21)}]

\* the key of each of these requests
KeyOf == [r \in KeyRequests |-> cache_key(r)]

\* no two of these requests have the same key
KeysInjective == \A r1, r2 \in KeyRequests : KeyOf[r1] = KeyOf[r2] => r1 = r2

\* C33: the key is a function of the request that is injective (requests with
\* the same key are equal in id, kind, season and episode); every key of
\* either cache is the key of one request; the Manifest Cache holds a key
\* only if the Result Cache holds it; and a resolution that is answered by
\* tier 1 or from the Result Cache is answered the data stored under the key
\* of its own request, whose cache-backed manifest URL names that same key
C33_OneKeyPerRequest ==
    /\ KeysInjective
    /\ DOMAIN bingeflix_m3u8_cache \subseteq DOMAIN bingeflix_cache
    /\ \A k \in DOMAIN bingeflix_cache :
           Cardinality({r \in KeyRequests : KeyOf[r] = k}) = 1
    /\ (ResolveReturned /\ returned.tiers \in {<<>>, <<Tier(1, "ok")>>}) =>
           LET k == cache_key(returned.request)
           IN  /\ k \in DOMAIN bingeflix_cache
               /\ returned.result = bingeflix_cache[k].data
               /\ StartsWith(returned.result.url, HlsBingeflixRoute) =>
                      /\ returned.result.url = CachedManifestUrl(k)
                      /\ k \in DOMAIN bingeflix_m3u8_cache

\* both caches hold the entries of two requests with the same id, and a
\* resolution of one of them was answered from the Result Cache
C33_Witness ==
    /\ Cardinality(DOMAIN bingeflix_m3u8_cache) = 2
    /\ DOMAIN bingeflix_cache = DOMAIN bingeflix_m3u8_cache
    /\ ResolveReturned
    /\ returned.tiers = <<>>

\* C34: no step removes a key from the Result Cache or from the Manifest
\* Cache, and an entry that has expired stays in its map as it is in every
\* step but the return of a successful tier 1 for its key, which puts the
\* entry of that resolution in its place
C34_KeysOnlyGrow ==
    [][/\ DOMAIN bingeflix_cache \subseteq DOMAIN bingeflix_cache'
       /\ DOMAIN bingeflix_m3u8_cache \subseteq DOMAIN bingeflix_m3u8_cache'
       /\ \A k \in DOMAIN bingeflix_cache :
              (~WithinTTL(k) /\ bingeflix_cache'[k] # bingeflix_cache[k]) =>
                  /\ TierOneSucceeds
                  /\ cache_key(returned'.request) = k
                  /\ bingeflix_cache'[k].data = returned'.result
                  /\ bingeflix_cache'[k].timestamp = now'
       /\ \A k \in DOMAIN bingeflix_m3u8_cache :
              (ManifestGone(k) /\ bingeflix_m3u8_cache'[k] # bingeflix_m3u8_cache[k]) =>
                  /\ TierOneSucceeds
                  /\ cache_key(returned'.request) = k]_vars

\* the manifest route answered 404 for an id whose expired entry is still in
\* the Manifest Cache, the expired entry of the Result Cache being there too
C34_Witness ==
    /\ returned.call = "serve_bingeflix_m3u8"
    /\ returned.response.status = 404
    /\ returned.stream_id \in DOMAIN bingeflix_m3u8_cache
    /\ returned.stream_id \in DOMAIN bingeflix_cache
    /\ ~WithinTTL(returned.stream_id)

(***************************************************************************)
(* The co-viewing rooms: the Socket.IO event handlers.  A handler runs     *)
(* from its first statement to its last without suspension, so each is one *)
(* step.  A dict of users is the sequence of its items in insertion order. *)
(***************************************************************************)
\* the room codes generate_room_code may draw
RoomCodes == {"R1", "R2"}

\* del d[k]
DictDel(d, k) == [x \in DOMAIN d \ {k} |-> d[x]]

\* data.get(key, default)
DataGet(data, key, default) == IF key \in DOMAIN data THEN data[key] ELSE default

\* the keys of a users dict
UserSids(users) == {users[i].sid : i \in 1..Len(users)}

\* users.get(sid, default)
UsersGet(users, sid, default) ==
    IF sid \in UserSids(users)
    THEN users[CHOOSE i \in 1..Len(users) : users[i].sid = sid].username
    ELSE default

\* users[sid] = username: a new key goes last, a key the dict has keeps its place
UsersSet(users, sid, username) ==
    IF sid \in UserSids(users)
    THEN [i \in 1..Len(users) |->
             IF users[i].sid = sid THEN [sid |-> sid, username |-> username] ELSE users[i]]
    ELSE Append(users, [sid |-> sid, username |-> username])

\* del users[sid], if the dict has the key
UsersDel(users, sid) == SelectSeq(users, LAMBDA u : u.sid # sid)

\* [{'username': uname, 'socket_id': usid} for usid, uname in users.items()]
UsersList(users) ==
    [i \in 1..Len(users) |-> [username |-> users[i].username, socket_id |-> users[i].sid]]

\* emit(event, data, room=to, skip_sid=skip); to is the caller's sid when no
\* room is given
Emit(event, data, to, skip) == [event |-> event, data |-> data, to |-> to, skip |-> skip]

\* the host after the host left: the last of the remaining users
NewHostLast(users) == users[Len(users)].sid

\* list(room['users'].keys())[0]
NewHost(users) == users[1].sid

\* the rooms once sid was removed from the users of the room code: the host
\* is replaced when it was sid, and the room deleted when nobody remains
RoomsAfterLeft(code, sid) ==
    LET room == watchparty_rooms[code]
        users == UsersDel(room.users, sid)
    IN  IF room.host # sid
        THEN DictSet(watchparty_rooms, code, [room EXCEPT !.users = users])
        ELSE IF users # <<>>
        THEN DictSet(watchparty_rooms, code,
                     [room EXCEPT !.users = users, !.host = NewHost(users)])
        ELSE DictDel(watchparty_rooms, code)

\* what handle_disconnect and handle_leave_party emit to the room code
EmitsAfterLeft(code, sid) ==
    LET room == watchparty_rooms[code]
        users == UsersDel(room.users, sid)
        left == Emit("user_left",
                     [username |-> UsersGet(room.users, sid, "Unknown"),
                      socket_id |-> sid, users |-> UsersList(users)],
                     code, None)
    IN  IF room.host = sid /\ users # <<>>
        THEN <<left, Emit("new_host", [username |-> UsersGet(users, NewHost(users), "")],
                          code, None)>>
        ELSE <<left>>

\* the connection of sid is made
handle_connect(sid) ==
    /\ sessions[sid] = "none"
    /\ sessions' = [sessions EXCEPT ![sid] = "open"]
    /\ emitted' = <<Emit("connected", [sid |-> sid], sid, None)>>
    /\ UNCHANGED <<watchparty_rooms, user_rooms, sio_rooms>>
    /\ UNCHANGED <<server, scraper, friendships>>

\* the connection of sid is closed: Socket.IO takes it out of its rooms
handle_disconnect(sid) ==
    /\ sessions[sid] = "open"
    /\ sessions' = [sessions EXCEPT ![sid] = "closed"]
    /\ sio_rooms' = [sio_rooms EXCEPT ![sid] = {}]
    /\ IF sid \in DOMAIN user_rooms
       THEN /\ user_rooms' = DictDel(user_rooms, sid)
            /\ IF user_rooms[sid] \in DOMAIN watchparty_rooms
               THEN /\ watchparty_rooms' = RoomsAfterLeft(user_rooms[sid], sid)
                    /\ emitted' = EmitsAfterLeft(user_rooms[sid], sid)
               ELSE /\ emitted' = <<>>
                    /\ UNCHANGED watchparty_rooms
       ELSE /\ emitted' = <<>>
            /\ UNCHANGED <<watchparty_rooms, user_rooms>>
    /\ UNCHANGED <<server, scraper, friendships>>

\* the room handle_create_party makes
NewRoom(sid, username, content) ==
    [host |-> sid,
     users |-> <<[sid |-> sid, username |-> username]>>,
     content |-> content,
     state |-> [playing |-> FALSE, currentTime |-> 0, timestamp |-> now],
     sync_mode |-> "none",
     ready_users |-> {},
     ready_check_active |-> FALSE,
     created_at |-> now]

\* create_party; room_code is what generate_room_code returned, a code that
\* no room has
handle_create_party(sid, data, room_code) ==
    /\ sessions[sid] = "open"
    /\ room_code \notin DOMAIN watchparty_rooms
    /\ LET username == DataGet(data, "username", "Anonymous")
           content == DataGet(data, "content", "{}")
       IN  /\ watchparty_rooms' =
                  DictSet(watchparty_rooms, room_code, NewRoom(sid, username, content))
           /\ emitted' = <<Emit("party_created",
                                [room_code |-> room_code, is_host |-> TRUE,
                                 content |-> content,
                                 users |-> <<[username |-> username, socket_id |-> sid]>>],
                                sid, None)>>
    /\ user_rooms' = DictSet(user_rooms, sid, room_code)
    /\ sio_rooms' = [sio_rooms EXCEPT ![sid] = @ \cup {room_code}]
    /\ UNCHANGED sessions
    /\ UNCHANGED <<server, scraper, friendships>>

\* join_party
handle_join_party(sid, data) ==
    /\ sessions[sid] = "open"
    /\ LET room_code == DataGet(data, "room_code", "")
           username == DataGet(data, "username", "Anonymous")
       IN  IF room_code \notin DOMAIN watchparty_rooms
           THEN /\ emitted' = <<Emit("join_error", [message |-> "Room not found"], sid, None)>>
                /\ UNCHANGED <<watchparty_rooms, user_rooms, sio_rooms>>
           ELSE LET room == watchparty_rooms[room_code]
                    users == UsersSet(room.users, sid, username)
                IN  /\ watchparty_rooms' =
                           DictSet(watchparty_rooms, room_code, [room EXCEPT !.users = users])
                    /\ user_rooms' = DictSet(user_rooms, sid, room_code)
                    /\ sio_rooms' = [sio_rooms EXCEPT ![sid] = @ \cup {room_code}]
                    /\ emitted' =
                           <<Emit("party_joined",
                                  [room_code |-> room_code, is_host |-> sid = room.host,
                                   content |-> room.content, users |-> UsersList(users),
                                   state |-> room.state, sync_mode |-> room.sync_mode],
                                  sid, None),
                             Emit("user_joined",
                                  [username |-> username, socket_id |-> sid,
                                   users |-> UsersList(users)],
                                  room_code, Some(sid))>>
    /\ UNCHANGED sessions
    /\ UNCHANGED <<server, scraper, friendships>>

\* leave_party
handle_leave_party(sid) ==
    /\ sessions[sid] = "open"
    /\ IF sid \in DOMAIN user_rooms
       THEN /\ user_rooms' = DictDel(user_rooms, sid)
            /\ IF user_rooms[sid] \in DOMAIN watchparty_rooms
               THEN /\ watchparty_rooms' = RoomsAfterLeft(user_rooms[sid], sid)
                    /\ sio_rooms' = [sio_rooms EXCEPT ![sid] = @ \ {user_rooms[sid]}]
                    /\ emitted' = EmitsAfterLeft(user_rooms[sid], sid)
                                      \o <<Emit("party_left", None, sid, None)>>
               ELSE /\ emitted' = <<Emit("party_left", None, sid, None)>>
                    /\ UNCHANGED <<watchparty_rooms, sio_rooms>>
       ELSE /\ emitted' = <<>>
            /\ UNCHANGED <<watchparty_rooms, user_rooms, sio_rooms>>
    /\ UNCHANGED sessions
    /\ UNCHANGED <<server, scraper, friendships>>

\* the payloads of the membership events
JoinData == {[username |-> "u", room_code |-> "R1"], [room_code |-> "R2"], [x \in {} |-> 0]}

\* the events of connection and membership, for the clients sids
Membership(sids, datas, codes) ==
    \/ \E sid \in sids : handle_connect(sid)
    \/ \E sid \in sids : handle_disconnect(sid)
    \/ \E sid \in sids, data \in datas, room_code \in codes :
           handle_create_party(sid, data, room_code)
    \/ \E sid \in sids, data \in datas : handle_join_party(sid, data)
    \/ \E sid \in sids : handle_leave_party(sid)

NextRooms == Membership(Sids, JoinData, RoomCodes)
SpecRooms == Init /\ [][NextRooms]_vars

\* the place of sid among the items of a users dict
Pos(users, sid) == CHOOSE i \in 1..Len(users) : users[i].sid = sid

\* sid, whose room is the room code and who is its host, leaves or disconnects
HostLeaves(sid, code) ==
    /\ sid \in DOMAIN user_rooms
    /\ user_rooms[sid] = code
    /\ code \in DOMAIN watchparty_rooms
    /\ watchparty_rooms[code].host = sid
    /\ sid \notin DOMAIN user_rooms'
    /\ handle_leave_party(sid) \/ handle_disconnect(sid)

\* the users of a room that stays keep their order, and a new user is last
OrderKept(code) ==
    LET users == watchparty_rooms[code].users
        users2 == watchparty_rooms'[code].users
    IN  \A s \in UserSids(users2), t \in UserSids(users2) :
            /\ (s \in UserSids(users) /\ t \in UserSids(users)) =>
                   (Pos(users2, s) < Pos(users2, t) <=> Pos(users, s) < Pos(users, t))
            /\ (s \in UserSids(users) /\ t \notin UserSids(users)) =>
                   Pos(users2, s) < Pos(users2, t)

\* C36: every room has a host that is one of its users; the users of a room
\* are kept in the order they joined; when the host leaves a room where
\* others remain, the host becomes the one of them that joined first, and
\* when the host leaves as the last user the room is deleted.
C36_HostIsMember ==
    /\ [](\A code \in DOMAIN watchparty_rooms :
              watchparty_rooms[code].host \in UserSids(watchparty_rooms[code].users))
    /\ [][\A code \in DOMAIN watchparty_rooms \cap DOMAIN watchparty_rooms' :
              OrderKept(code)]_vars
    /\ [][\A sid \in Sids, code \in RoomCodes :
              HostLeaves(sid, code) =>
                  LET users == watchparty_rooms[code].users
                      remaining == UserSids(users) \ {sid}
                  IN  IF remaining # {}
                      THEN /\ code \in DOMAIN watchparty_rooms'
                           /\ UserSids(watchparty_rooms'[code].users) = remaining
                           /\ watchparty_rooms'[code].host \in remaining
                           /\ \A t \in remaining :
                                  Pos(users, watchparty_rooms'[code].host) <= Pos(users, t)
                      ELSE code \notin DOMAIN watchparty_rooms']_vars

\* a host left a room where two users remain, and the one that joined first
\* is the host
C36_Witness ==
    \E code \in DOMAIN watchparty_rooms :
        /\ \E i \in 1..Len(emitted) : emitted[i].event = "new_host" /\ emitted[i].to = code
        /\ Len(watchparty_rooms[code].users) = 2
        /\ watchparty_rooms[code].host = watchparty_rooms[code].users[1].sid

\* the rooms that have sid among their users
RoomsOf(sid) ==
    {code \in DOMAIN watchparty_rooms : sid \in UserSids(watchparty_rooms[code].users)}

\* C37: each client is a user of at most one room, and it is a user of the
\* room R exactly when user_rooms maps its sid to R.
C37_OneRoomIndexed ==
    \A sid \in Sids :
        /\ Cardinality(RoomsOf(sid)) <= 1
        /\ \A code \in RoomCodes :
               code \in RoomsOf(sid) <=> (sid \in DOMAIN user_rooms /\ user_rooms[sid] = code)

\* C38: no room persists whose users have all left or disconnected: every
\* room in watchparty_rooms has a user whose connection is open.
C38_NoAbandonedRoom ==
    \A code \in DOMAIN watchparty_rooms :
        \E sid \in UserSids(watchparty_rooms[code].users) : sessions[sid] = "open"

(***************************************************************************)
(* The events of playback and of the ready check.                          *)
(***************************************************************************)
\* the payloads of the playback events
SyncData == {[currentTime |-> 5, content |-> "c", mode |-> "full"], [mode |-> "bad"]}

\* the clients of the playback events, the one room code they draw and the
\* payloads they join with
SyncSids == {"s1", "s2"}
SyncCodes == {"R1"}
SyncJoinData == {[username |-> "u", room_code |-> "R1"], [x \in {} |-> 0]}

\* room['host'] == sid, taken for true of every user of the room
IsHostOrMember(room, sid) == room.host = sid \/ sid \in UserSids(room.users)

\* room['host'] == sid
IsHost(room, sid) == room.host = sid

\* sid in user_rooms, and watchparty_rooms.get(user_rooms[sid]) is a room
HasRoom(sid) == sid \in DOMAIN user_rooms /\ user_rooms[sid] \in DOMAIN watchparty_rooms

\* the room of sid, when it has one
RoomOf(sid) == watchparty_rooms[user_rooms[sid]]

\* an event only the host is obeyed for: changed is the room of sid after
\* it and emits what it emits
HostEvent(sid, changed, emits) ==
    /\ sessions[sid] = "open"
    /\ IF HasRoom(sid) /\ IsHost(RoomOf(sid), sid)
       THEN /\ watchparty_rooms' = DictSet(watchparty_rooms, user_rooms[sid], changed)
            /\ emitted' = emits
       ELSE /\ emitted' = <<>>
            /\ UNCHANGED watchparty_rooms
    /\ UNCHANGED <<user_rooms, sessions, sio_rooms>>
    /\ UNCHANGED <<server, scraper, friendships>>

\* sync_play
handle_sync_play(sid, data) ==
    LET current_time == DataGet(data, "currentTime", 0)
        change(room) == [room EXCEPT !.state = [playing |-> TRUE,
                                                currentTime |-> current_time,
                                                timestamp |-> now]]
        emits(code, room) ==
            <<Emit("play_sync",
                   [currentTime |-> current_time,
                    username |-> UsersGet(room.users, sid, "")],
                   code, Some(sid))>>
    IN  HostEvent(sid, change(RoomOf(sid)), emits(user_rooms[sid], RoomOf(sid)))

\* sync_pause
handle_sync_pause(sid, data) ==
    LET current_time == DataGet(data, "currentTime", 0)
        change(room) == [room EXCEPT !.state = [playing |-> FALSE,
                                                currentTime |-> current_time,
                                                timestamp |-> now]]
        emits(code, room) ==
            <<Emit("pause_sync",
                   [currentTime |-> current_time,
                    username |-> UsersGet(room.users, sid, "")],
                   code, Some(sid))>>
    IN  HostEvent(sid, change(RoomOf(sid)), emits(user_rooms[sid], RoomOf(sid)))

\* sync_seek
handle_sync_seek(sid, data) ==
    LET current_time == DataGet(data, "currentTime", 0)
        change(room) == [room EXCEPT !.state.currentTime = current_time,
                                     !.state.timestamp = now]
        emits(code, room) ==
            <<Emit("seek_sync",
                   [currentTime |-> current_time,
                    username |-> UsersGet(room.users, sid, "")],
                   code, Some(sid))>>
    IN  HostEvent(sid, change(RoomOf(sid)), emits(user_rooms[sid], RoomOf(sid)))

\* sync_content
handle_sync_content(sid, data) ==
    LET content == DataGet(data, "content", "{}")
        change(room) == [room EXCEPT !.content = content]
        emits(code, room) ==
            <<Emit("content_sync", [content |-> content], code, Some(sid))>>
    IN  HostEvent(sid, change(RoomOf(sid)), emits(user_rooms[sid], RoomOf(sid)))

\* sync_stop
handle_sync_stop(sid) ==
    LET change(room) == [room EXCEPT !.state.playing = FALSE]
        emits(code, room) == <<>>
    IN  HostEvent(sid, change(RoomOf(sid)), emits(user_rooms[sid], RoomOf(sid)))

\* set_sync_mode
handle_set_sync_mode(sid, data) ==
    LET mode == DataGet(data, "mode", "none")
        change(room) ==
            IF mode \in {"full", "coordinated", "none"}
            THEN [room EXCEPT !.sync_mode = mode]
            ELSE room
        emits(code, room) ==
            IF mode \in {"full", "coordinated", "none"}
            THEN <<Emit("sync_mode_changed", [mode |-> mode], code, None)>>
            ELSE <<>>
    IN  HostEvent(sid, change(RoomOf(sid)), emits(user_rooms[sid], RoomOf(sid)))

\* ready_check
handle_ready_check(sid) ==
    LET change(room) == [room EXCEPT !.ready_users = {}, !.ready_check_active = TRUE]
        emits(code, room) ==
            <<Emit("ready_check_started", [total |-> Len(room.users)], code, None)>>
    IN  HostEvent(sid, change(RoomOf(sid)), emits(user_rooms[sid], RoomOf(sid)))

\* start_countdown
handle_start_countdown(sid) ==
    LET change(room) == [room EXCEPT !.ready_check_active = FALSE, !.ready_users = {}]
        emits(code, room) ==
            <<Emit("countdown_start", [timestamp |-> now], code, None)>>
    IN  HostEvent(sid, change(RoomOf(sid)), emits(user_rooms[sid], RoomOf(sid)))

\* resync
handle_resync(sid) ==
    LET change(room) == room
        emits(code, room) ==
            <<Emit("resync_triggered", [timestamp |-> now], code, None)>>
    IN  HostEvent(sid, change(RoomOf(sid)), emits(user_rooms[sid], RoomOf(sid)))

\* user_ready: any client whose room has a ready check going
handle_user_ready(sid) ==
    /\ sessions[sid] = "open"
    /\ IF HasRoom(sid) /\ watchparty_rooms[user_rooms[sid]].ready_check_active
       THEN LET room_code == user_rooms[sid]
                room == watchparty_rooms[room_code]
                ready_users == room.ready_users \cup {sid}
            IN  /\ watchparty_rooms' =
                       DictSet(watchparty_rooms, room_code,
                               [room EXCEPT !.ready_users = ready_users])
                /\ emitted' =
                       <<Emit("user_ready_update",
                              [username |-> UsersGet(room.users, sid, "Unknown"),
                               ready_count |-> Cardinality(ready_users),
                               total |-> Len(room.users)],
                              room_code, None)>>
       ELSE /\ emitted' = <<>>
            /\ UNCHANGED watchparty_rooms
    /\ UNCHANGED <<user_rooms, sessions, sio_rooms>>
    /\ UNCHANGED <<server, scraper, friendships>>

\* a host-only event of sid
HostOnly(sid) ==
    \/ \E data \in SyncData : handle_sync_play(sid, data)
    \/ \E data \in SyncData : handle_sync_pause(sid, data)
    \/ \E data \in SyncData : handle_sync_seek(sid, data)
    \/ \E data \in SyncData : handle_sync_content(sid, data)
    \/ handle_sync_stop(sid)
    \/ \E data \in SyncData : handle_set_sync_mode(sid, data)
    \/ handle_ready_check(sid)
    \/ handle_start_countdown(sid)
    \/ handle_resync(sid)

NextSync ==
    \/ Membership(SyncSids, SyncJoinData, SyncCodes)
    \/ \E sid \in SyncSids : HostOnly(sid)
    \/ \E sid \in SyncSids : handle_user_ready(sid)

SpecSync == Init /\ [][NextSync]_vars

\* sid is not the host of the room user_rooms names for it
NotHostOfItsRoom(sid) ==
    ~(HasRoom(sid) /\ watchparty_rooms[user_rooms[sid]].host = sid)

\* C35: a host-only event (sync_play, sync_pause, sync_seek, sync_content,
\* sync_stop, set_sync_mode, ready_check, start_countdown, resync) of a
\* client that is not the host of its current room changes no room and
\* emits nothing.
C35_NonHostIgnored ==
    [][\A sid \in SyncSids :
           (NotHostOfItsRoom(sid) /\ HostOnly(sid)) =>
               /\ watchparty_rooms' = watchparty_rooms
               /\ user_rooms' = user_rooms
               /\ emitted' = <<>>]_vars

\* a room that plays, in a ready check, has a host and a second user whose
\* connection is open, and the handler that ran last emitted nothing
C35_Witness ==
    \E code \in DOMAIN watchparty_rooms, sid \in SyncSids :
        /\ sessions[sid] = "open"
        /\ sid \in DOMAIN user_rooms
        /\ user_rooms[sid] = code
        /\ watchparty_rooms[code].host # sid
        /\ watchparty_rooms[code].state.playing
        /\ watchparty_rooms[code].ready_check_active
        /\ emitted = <<>>

\* C39: while a ready check is going, the ready_users of the room are among
\* its users, and every user_ready_update reports ready_count <= total.
C39_ReadyAmongUsers ==
    /\ \A code \in DOMAIN watchparty_rooms :
           watchparty_rooms[code].ready_check_active =>
               watchparty_rooms[code].ready_users \subseteq UserSids(watchparty_rooms[code].users)
    /\ \A i \in 1..Len(emitted) :
           emitted[i].event = "user_ready_update" =>
               emitted[i].data.ready_count <= emitted[i].data.total

(***************************************************************************)
(* The friends routes.  Every call of a collection goes to the database    *)
(* over a socket and so is a point where the handler is suspended and      *)
(* another may run: a step is one database call with the code that follows *)
(* it up to the next.  The _id of a request is its place in the collection.*)
(***************************************************************************)
\* at most this many friends handlers are in service at once
MaxFriendCalls == 2

\* at most this many requests are inserted
MaxFriendRequests == 2

\* the usernames a request names: those of the users, and one nobody has
Usernames == {UsernameOf(u) : u \in UserIds} \cup {<<"z">>}

\* what the friends routes leave alone
others == <<bingeflix_cache, bingeflix_m3u8_cache, bingeflix_lock, now,
            running_workers, scraper, party>>

\* a friends handler suspended in a database call
FriendCall(call, at, fields) == [call |-> call, at |-> at] @@ fields

\* the handler c goes on to its next database call, or returns status
GoesOn(c, at) ==
    /\ calls' = (calls (-) SetToBag({c})) (+) SetToBag({[c EXCEPT !.at = at]})
    /\ UNCHANGED returned

Returns(c, status) ==
    /\ calls' = calls (-) SetToBag({c})
    /\ returned' = [call |-> c.call, status |-> status]

\* users_collection.find_one({'username': username})
FindByUsername(username) == {u \in UserIds : users_collection[u].username = username}

\* the pending requests between the two users, either way
PendingBetween(x, y) ==
    {i \in 1..Len(friend_requests_collection) :
         LET r == friend_requests_collection[i]
         IN  /\ r.status = "pending"
             /\ \/ r.from_user_id = x /\ r.to_user_id = y
                \/ r.from_user_id = y /\ r.to_user_id = x}

\* friend_requests_collection.find_one({'_id', 'to_user_id', 'status': 'pending'})
FindPending(request_id, user_id) ==
    /\ request_id \in 1..Len(friend_requests_collection)
    /\ friend_requests_collection[request_id].to_user_id = user_id
    /\ friend_requests_collection[request_id].status = "pending"

\* update_one({'_id': id}, {'$set': {'status': status}})
SetStatus(request_id, status) ==
    IF request_id \in 1..Len(friend_requests_collection)
    THEN [friend_requests_collection EXCEPT ![request_id].status = status]
    ELSE friend_requests_collection

\* update_one({'_id': of}, {'$addToSet': {'friends': friend}})
AddToSet(of, friend) == [users_collection EXCEPT ![of].friends = @ \cup {friend}]

\* update_one({'_id': of}, {'$pull': {'friends': friend}})
Pull(of, friend) == [users_collection EXCEPT ![of].friends = @ \ {friend}]

\* a friends handler starts: its call is in service at its first database call
FriendStart(call, at, fields) ==
    /\ BagCardinality(calls) < MaxFriendCalls
    /\ calls' = calls (+) SetToBag({FriendCall(call, at, fields)})
    /\ UNCHANGED <<returned, friendships, others>>

send_friend_request_start(user_id, to_username) ==
    FriendStart("send_friend_request", "find_to_user",
                [user_id |-> user_id, username |-> to_username, to_user_id |-> None])

accept_friend_request_start(user_id, request_id) ==
    FriendStart("accept_friend_request", "find_request",
                [user_id |-> user_id, request_id |-> request_id, from_user_id |-> None])

reject_friend_request_start(user_id, request_id) ==
    FriendStart("reject_friend_request", "find_request",
                [user_id |-> user_id, request_id |-> request_id])

remove_friend_start(user_id, friend_id) ==
    FriendStart("remove_friend", "pull_own", [user_id |-> user_id, friend_id |-> friend_id])

\* the database calls of send_friend_request
send_friend_request(c) ==
    /\ c \in BagToSet(calls)
    /\ c.call = "send_friend_request"
    /\ \/ /\ c.at = "find_to_user"
          /\ IF FindByUsername(c.username) = {}
             THEN Returns(c, 404)
             ELSE \E to_user \in FindByUsername(c.username) :
                      /\ calls' = (calls (-) SetToBag({c})) (+)
                             SetToBag({[c EXCEPT !.at = "find_user",
                                                 !.to_user_id = Some(to_user)]})
                      /\ UNCHANGED returned
          /\ UNCHANGED friendships
       \/ /\ c.at = "find_user"
          /\ IF c.to_user_id[1] \in users_collection[c.user_id].friends
             THEN Returns(c, 400)
             ELSE GoesOn(c, "find_existing")
          /\ UNCHANGED friendships
       \/ /\ c.at = "find_existing"
          /\ IF PendingBetween(c.user_id, c.to_user_id[1]) # {}
             THEN Returns(c, 400)
             ELSE GoesOn(c, "insert")
          /\ UNCHANGED friendships
       \/ /\ c.at = "insert"
          /\ Len(friend_requests_collection) < MaxFriendRequests
          /\ friend_requests_collection' =
                 Append(friend_requests_collection,
                        [from_user_id |-> c.user_id, to_user_id |-> c.to_user_id[1],
                         status |-> "pending"])
          /\ Returns(c, 201)
          /\ UNCHANGED users_collection
    /\ UNCHANGED others

\* the database calls of accept_friend_request
accept_friend_request(c) ==
    /\ c \in BagToSet(calls)
    /\ c.call = "accept_friend_request"
    /\ \/ /\ c.at = "find_request"
          /\ IF ~FindPending(c.request_id, c.user_id)
             THEN Returns(c, 404)
             ELSE /\ calls' = (calls (-) SetToBag({c})) (+)
                         SetToBag({[c EXCEPT
                             !.at = "add_own",
                             !.from_user_id =
                                 Some(friend_requests_collection[c.request_id].from_user_id)]})
                  /\ UNCHANGED returned
          /\ UNCHANGED friendships
       \/ /\ c.at = "add_own"
          /\ users_collection' = AddToSet(c.user_id, c.from_user_id[1])
          /\ GoesOn(c, "add_other")
          /\ UNCHANGED friend_requests_collection
       \/ /\ c.at = "add_other"
          /\ users_collection' = AddToSet(c.from_user_id[1], c.user_id)
          /\ GoesOn(c, "set_status")
          /\ UNCHANGED friend_requests_collection
       \/ /\ c.at = "set_status"
          /\ friend_requests_collection' = SetStatus(c.request_id, "accepted")
          /\ Returns(c, 200)
          /\ UNCHANGED users_collection
    /\ UNCHANGED others

\* the database calls of reject_friend_request
reject_friend_request(c) ==
    /\ c \in BagToSet(calls)
    /\ c.call = "reject_friend_request"
    /\ \/ /\ c.at = "find_request"
          /\ IF ~FindPending(c.request_id, c.user_id)
             THEN Returns(c, 404)
             ELSE GoesOn(c, "set_status")
          /\ UNCHANGED friendships
       \/ /\ c.at = "set_status"
          /\ friend_requests_collection' = SetStatus(c.request_id, "rejected")
          /\ Returns(c, 200)
          /\ UNCHANGED users_collection
    /\ UNCHANGED others

\* the database calls of remove_friend
remove_friend(c) ==
    /\ c \in BagToSet(calls)
    /\ c.call = "remove_friend"
    /\ \/ /\ c.at = "pull_own"
          /\ users_collection' = Pull(c.user_id, c.friend_id)
          /\ GoesOn(c, "pull_other")
       \/ /\ c.at = "pull_other"
          /\ users_collection' = Pull(c.friend_id, c.user_id)
          /\ Returns(c, 200)
    /\ UNCHANGED friend_requests_collection
    /\ UNCHANGED others

NextFriends ==
    \/ \E user_id \in UserIds, username \in Usernames :
           send_friend_request_start(user_id, username)
    \/ \E user_id \in UserIds, request_id \in 1..MaxFriendRequests :
           accept_friend_request_start(user_id, request_id)
    \/ \E user_id \in UserIds, request_id \in 1..MaxFriendRequests :
           reject_friend_request_start(user_id, request_id)
    \/ \E user_id \in UserIds, friend_id \in UserIds : remove_friend_start(user_id, friend_id)
    \/ \E c \in BagToSet(calls) : send_friend_request(c)
    \/ \E c \in BagToSet(calls) : accept_friend_request(c)
    \/ \E c \in BagToSet(calls) : reject_friend_request(c)
    \/ \E c \in BagToSet(calls) : remove_friend(c)

SpecFriends == Init /\ [][NextFriends]_vars

\* C40: once every call of send_friend_request, accept_friend_request,
\* reject_friend_request and remove_friend has completed, friendship is
\* symmetric and irreflexive: a is in b's friends exactly when b is in a's,
\* and nobody is in their own friends.
C40_SymmetricIrreflexive ==
    calls = EmptyBag =>
        \A a \in UserIds, b \in UserIds :
            /\ a \in users_collection[b].friends <=> b \in users_collection[a].friends
            /\ a \notin users_collection[a].friends

====
